---- MODULE Spec2Model ----
(***************************************************************************)
(* TechTap: the Serial transport (techtap/rfid_reader.py), the Bridge      *)
(* transport (techtap/phone_nfc.py), the NDEF decoder                      *)
(* (techtap/ndef_encoder.py) and the write orchestrator (cli.py).          *)
(***************************************************************************)
EXTENDS Integers, Sequences, FiniteSets, TLC

VARIABLES
    reader_mode,        \* which reader class connect_reader built
    _lock,              \* self._lock: the thread holding it, or NoThread
    _connected,         \* self._connected
    _serial,            \* RFIDReader._serial: "None" or "open"
    owed,               \* the lines the device has still to deliver for commands
                        \* whose wait is over: "tap" and/or "result"
    _phone_ready,       \* PhoneNFCReader._phone_ready
    _nfc_supported,     \* PhoneNFCReader._nfc_supported
    _ws_client,         \* PhoneNFCReader._ws_client: a connection, or "None"
    _loop,              \* PhoneNFCReader._loop: whether it is set
    _pending_response,  \* PhoneNFCReader._pending_response: a message, or None
    _response_event,    \* PhoneNFCReader._response_event: whether it is set
    server_alive,       \* whether the bus listener thread is running
    conn,               \* per connection of the phone: "closed" or "open"
    phone_pending,      \* per connection: the commands the phone has not answered
    pc,                 \* per thread: position inside the current call
    call,               \* per thread: the public method being run
    ndef_data,          \* per thread: write_ndef's argument
    attempt,            \* per thread: write_ndef's loop variable
    resp,               \* per thread: the dict of the tap wait
    result,             \* per thread: the dict of the result wait
    ret,                \* per thread: the returned value (or NoReturn)
    log,                \* per thread: what the current call did on the channel
    ndef_image,         \* the argument of get_ndef_payload_info
    decoded,            \* what get_ndef_payload_info gave for it
    cli_pc,             \* do_write: its position
    depth,              \* do_write: how many do_write calls are nested
    cli_result,         \* do_write: result
    erase_result,       \* do_write: erase_result
    cli_log,            \* do_write: what it asked, called and was given, in order
    encode_call,        \* the encoder called and its arguments
    encoded,            \* what the encoder gave: the image, or the exception
    bulk_pc,            \* handle_bulk_write: its position
    written,            \* handle_bulk_write: written
    failed,             \* handle_bulk_write: failed
    total_written,      \* the row of bulk_sessions: total_written
    total_failed,       \* the row of bulk_sessions: total_failed
    ended_at,           \* the row of bulk_sessions: whether ended_at is set
    config,             \* config.json as load_config gives it
    port,               \* RFIDReader.port
    max_retries,        \* self.max_retries
    verify_after_write  \* self.verify_after_write

sessVars == <<reader_mode, _lock, _connected>>
rfidVars == <<_serial, owed>>
phoneVars == <<_phone_ready, _nfc_supported, _ws_client, _loop, _pending_response,
               _response_event, server_alive, conn, phone_pending>>
threadVars == <<pc, call, ndef_data, attempt, resp, result, ret, log>>

codecVars == <<ndef_image, decoded>>
cliVars == <<cli_pc, depth, cli_result, erase_result, cli_log>>
encVars == <<encode_call, encoded>>
bulkVars == <<bulk_pc, written, failed, total_written, total_failed, ended_at>>
cfgVars == <<config, port, max_retries, verify_after_write>>
extraVars == <<bulkVars, cfgVars>>
otherVars == <<codecVars, cliVars, encVars, extraVars>>

vars == <<sessVars, rfidVars, phoneVars, threadVars, otherVars>>

\* ------------------------------------------------------------------ bounds

Threads == {"t1", "t2"}
NoThread == "none"
\* the data fields a response line may carry
LineData == {"", "04A1B2"}

\* ------------------------------------------------- protocol constants

\* utils.DEFAULT_CONFIG: the keys a reader's constructor reads
DEFAULT_CONFIG == [port |-> "auto", verify_after_write |-> TRUE, max_retries |-> 3]

\* the port find_arduino_port detects
DetectedPort == "COM3"

CMD_WRITE_RAW == "WRITE_RAW"
CMD_ERASE == "ERASE"
CMD_READ == "READ"
CMD_LOCK == "LOCK"
CMD_INFO == "INFO"

RESP_OK == "OK"
RESP_WRITE_OK == "WRITE_OK"
RESP_ERASE_OK == "ERASE_OK"
RESP_READ_OK == "READ_OK"
RESP_LOCK_OK == "LOCK_OK"
RESP_TAP_CARD == "TAP_CARD"
RESP_ERROR == "ERROR"
RESP_PONG == "PONG"
RESP_READY == "READY"
RESP_VERIFY_OK == "VERIFY_OK"
RESP_TAG_INFO == "TAG_INFO"
RESP_NO_TAG == "NO_TAG"
RESP_WRITE_FAIL == "WRITE_FAIL"
RESP_DATA == "DATA"
RESP_DUPLICATE == "DUPLICATE"
TIMEOUT == "TIMEOUT"

Statuses == {RESP_OK, RESP_WRITE_OK, RESP_ERASE_OK, RESP_READ_OK, RESP_LOCK_OK,
             RESP_TAP_CARD, RESP_ERROR, RESP_PONG, RESP_READY, RESP_VERIFY_OK,
             RESP_TAG_INFO, RESP_NO_TAG, RESP_WRITE_FAIL, RESP_DATA,
             RESP_DUPLICATE}

\* a line of the device, already split at the first "|"
Lines == [status : Statuses, data : LineData]

\* ------------------------------------------------------------ helpers

\* dict.get(key, default)
Get(d, k, default) == IF k \in DOMAIN d THEN d[k] ELSE default

NoReturn == [none |-> TRUE]
NoResp == [status |-> "", data |-> ""]

Ev(kind, arg) == <<kind, arg>>

\* RFIDReader.connected
RfidConnected == _connected /\ _serial = "open"

\* one iteration of _wait_for_response's loop on a line that was read: the
\* dict it returns, or NoResp when the loop goes on
WaitForResponse(expected, line) ==
    IF line.status \in expected THEN [status |-> line.status, data |-> line.data]
    ELSE IF line.status = RESP_ERROR THEN [status |-> RESP_ERROR, data |-> line.data]
    ELSE NoResp

\* the dict _wait_for_response returns when its time is up
WaitTimedOut == [status |-> TIMEOUT, data |-> ""]

TapExpected == {RESP_TAP_CARD, RESP_ERROR}

WriteExpected == {RESP_WRITE_OK, RESP_WRITE_FAIL, RESP_ERROR, RESP_VERIFY_OK,
                  RESP_DUPLICATE}

\* the terminal responses each single-shot operation waits for
ResultExpected(c) ==
    CASE c = "write_ndef" -> WriteExpected
      [] c = "erase_tag" -> {RESP_ERASE_OK, RESP_ERROR}
      [] c = "read_tag" -> {RESP_READ_OK, RESP_TAG_INFO, RESP_DATA, RESP_NO_TAG, RESP_ERROR}
      [] c = "lock_tag" -> {RESP_LOCK_OK, RESP_ERROR}
      [] c = "get_tag_info" -> {RESP_TAG_INFO, RESP_NO_TAG, RESP_ERROR}
      [] OTHER -> {}

Command(c) ==
    CASE c = "write_ndef" -> CMD_WRITE_RAW
      [] c = "erase_tag" -> CMD_ERASE
      [] c = "read_tag" -> CMD_READ
      [] c = "lock_tag" -> CMD_LOCK
      [] c = "get_tag_info" -> CMD_INFO
      [] OTHER -> ""

TagOps == {"write_ndef", "erase_tag", "read_tag", "lock_tag", "get_tag_info"}
SingleOps == TagOps \ {"write_ndef"}
PublicOps == TagOps \cup {"connect", "disconnect"}

\* -------------------------------------------------- the NDEF decoder
\* Bytes are numbers 0..255, byte strings are sequences of them, decoded
\* text is a sequence of code points.

None == [kind |-> "None"]
Raise(exc) == [kind |-> "raise", exc |-> exc]
Raises(x) == "kind" \in DOMAIN x /\ x.kind = "raise"

\* data[a:b] with Python's clamping (a, b are 0-based, b exclusive)
Slice(data, a, b) ==
    LET hi == IF b < Len(data) THEN b ELSE Len(data)
    IN  IF a >= hi THEN <<>> ELSE SubSeq(data, a + 1, hi)

\* x & m for a mask m = 2^k - 1, and the test of one bit 2^k
LowBits(x, m) == x % (m + 1)
BitSet(x, bit) == (x \div bit) % 2 = 1

REPLACEMENT == 65533

\* bytes.decode("ascii", errors="replace")
AsciiReplace(bytes) ==
    [i \in 1..Len(bytes) |-> IF bytes[i] < 128 THEN bytes[i] ELSE REPLACEMENT]

\* whether bytes.decode("ascii") succeeds
IsAscii(bytes) == \A i \in 1..Len(bytes) : bytes[i] < 128

\* bytes.decode("utf-8", errors="replace") for one- and two-byte sequences;
\* every other byte is a malformed sequence of its own (the inputs of the
\* model hold no lead byte of a three- or four-byte sequence)
Utf8Replace(bytes) ==
    LET \* a two-byte sequence starts at i (a lead byte is never the second
        \* byte of one)
        Pair(i) == /\ i < Len(bytes)
                   /\ bytes[i] \in 194..223
                   /\ bytes[i + 1] \in 128..191
        \* per byte: the code point that starts there, -1 for the second
        \* byte of a sequence
        each == [i \in 1..Len(bytes) |->
                    IF i > 1 /\ Pair(i - 1) THEN -1
                    ELSE IF bytes[i] < 128 THEN bytes[i]
                    ELSE IF Pair(i) THEN (bytes[i] - 192) * 64 + (bytes[i + 1] - 128)
                    ELSE REPLACEMENT]
    IN  SelectSeq(each, LAMBDA cp : cp # -1)

\* str.lower() on code points below 256
Lower(str) ==
    [i \in 1..Len(str) |->
        IF str[i] \in 65..90 \/ (str[i] \in 192..222 /\ str[i] # 215)
        THEN str[i] + 32 ELSE str[i]]

\* needle in hay
Contains(hay, needle) ==
    \E i \in 0..(Len(hay) - Len(needle)) : SubSeq(hay, i + 1, i + Len(needle)) = needle

\* "U", "T", "vcard", "wfa.wsc"
STR_U == <<85>>
STR_T == <<84>>
STR_vcard == <<118, 99, 97, 114, 100>>
STR_wfa_wsc == <<119, 102, 97, 46, 119, 115, 99>>

\* URI_PREFIXES, in the order of the dict; text is code points
URI_PREFIXES ==
    <<
       \* http://www.
       [code |-> 1, prefix |-> <<104, 116, 116, 112, 58, 47, 47, 119, 119, 119, 46>>],
       \* https://www.
       [code |-> 2, prefix |-> <<104, 116, 116, 112, 115, 58, 47, 47, 119, 119, 119, 46>>],
       \* http://
       [code |-> 3, prefix |-> <<104, 116, 116, 112, 58, 47, 47>>],
       \* https://
       [code |-> 4, prefix |-> <<104, 116, 116, 112, 115, 58, 47, 47>>],
       \* tel:
       [code |-> 5, prefix |-> <<116, 101, 108, 58>>],
       \* mailto:
       [code |-> 6, prefix |-> <<109, 97, 105, 108, 116, 111, 58>>],
       \* ftp://anonymous:anonymous@
       [code |-> 7, prefix |-> <<102, 116, 112, 58, 47, 47, 97, 110, 111, 110, 121, 109, 111, 117, 115, 58, 97, 110, 111, 110, 121, 109, 111, 117, 115, 64>>],
       \* ftp://ftp.
       [code |-> 8, prefix |-> <<102, 116, 112, 58, 47, 47, 102, 116, 112, 46>>],
       \* ftps://
       [code |-> 9, prefix |-> <<102, 116, 112, 115, 58, 47, 47>>],
       \* sftp://
       [code |-> 10, prefix |-> <<115, 102, 116, 112, 58, 47, 47>>],
       \* smb://
       [code |-> 11, prefix |-> <<115, 109, 98, 58, 47, 47>>],
       \* nfs://
       [code |-> 12, prefix |-> <<110, 102, 115, 58, 47, 47>>],
       \* ftp://
       [code |-> 13, prefix |-> <<102, 116, 112, 58, 47, 47>>],
       \* dav://
       [code |-> 14, prefix |-> <<100, 97, 118, 58, 47, 47>>],
       \* news:
       [code |-> 15, prefix |-> <<110, 101, 119, 115, 58>>],
       \* telnet://
       [code |-> 16, prefix |-> <<116, 101, 108, 110, 101, 116, 58, 47, 47>>],
       \* imap:
       [code |-> 17, prefix |-> <<105, 109, 97, 112, 58>>],
       \* rtsp://
       [code |-> 18, prefix |-> <<114, 116, 115, 112, 58, 47, 47>>],
       \* urn:
       [code |-> 19, prefix |-> <<117, 114, 110, 58>>],
       \* pop:
       [code |-> 20, prefix |-> <<112, 111, 112, 58>>],
       \* sip:
       [code |-> 21, prefix |-> <<115, 105, 112, 58>>],
       \* sips:
       [code |-> 22, prefix |-> <<115, 105, 112, 115, 58>>],
       \* tftp:
       [code |-> 23, prefix |-> <<116, 102, 116, 112, 58>>],
       \* btspp://
       [code |-> 24, prefix |-> <<98, 116, 115, 112, 112, 58, 47, 47>>],
       \* btl2cap://
       [code |-> 25, prefix |-> <<98, 116, 108, 50, 99, 97, 112, 58, 47, 47>>],
       \* btgoep://
       [code |-> 26, prefix |-> <<98, 116, 103, 111, 101, 112, 58, 47, 47>>],
       \* tcpobex://
       [code |-> 27, prefix |-> <<116, 99, 112, 111, 98, 101, 120, 58, 47, 47>>],
       \* irdaobex://
       [code |-> 28, prefix |-> <<105, 114, 100, 97, 111, 98, 101, 120, 58, 47, 47>>],
       \* file://
       [code |-> 29, prefix |-> <<102, 105, 108, 101, 58, 47, 47>>],
       \* urn:epc:id:
       [code |-> 30, prefix |-> <<117, 114, 110, 58, 101, 112, 99, 58, 105, 100, 58>>],
       \* urn:epc:tag:
       [code |-> 31, prefix |-> <<117, 114, 110, 58, 101, 112, 99, 58, 116, 97, 103, 58>>],
       \* urn:epc:pat:
       [code |-> 32, prefix |-> <<117, 114, 110, 58, 101, 112, 99, 58, 112, 97, 116, 58>>],
       \* urn:epc:raw:
       [code |-> 33, prefix |-> <<117, 114, 110, 58, 101, 112, 99, 58, 114, 97, 119, 58>>],
       \* urn:epc:
       [code |-> 34, prefix |-> <<117, 114, 110, 58, 101, 112, 99, 58>>],
       \* urn:nfc:
       [code |-> 35, prefix |-> <<117, 114, 110, 58, 110, 102, 99, 58>>]
    >>

\* the reverse lookup in URI_PREFIXES: the prefix of the first entry with
\* this code, "" when there is none
UriPrefix(code) ==
    LET hits == {i \in DOMAIN URI_PREFIXES : URI_PREFIXES[i].code = code}
    IN  IF hits = {} THEN <<>>
        ELSE URI_PREFIXES[CHOOSE i \in hits : \A j \in hits : i <= j].prefix

\* the "Interpret" part of get_ndef_payload_info
\* bytes.hex(): two lower-case hex digits per byte
RECURSIVE hex(_)
hex(bytes) ==
    LET digit(n) == IF n < 10 THEN 48 + n ELSE 87 + n
    IN  IF bytes = <<>> THEN <<>>
        ELSE <<digit(bytes[1] \div 16), digit(bytes[1] % 16)>> \o hex(Tail(bytes))

Interpret(rec_type, tnf, payload) ==
    LET info == [kind |-> "info", type |-> rec_type, tnf |-> tnf, raw_payload |-> payload]
    IN  IF rec_type = STR_U /\ tnf = 1
        THEN IF payload = <<>> THEN None   \* payload[0]: IndexError
             ELSE info @@
                  [content_type |-> "URL",
                   content |-> UriPrefix(payload[1]) \o Utf8Replace(Tail(payload))]
        ELSE IF rec_type = STR_T /\ tnf = 1
        THEN IF payload = <<>> THEN None   \* payload[0]: IndexError
             ELSE LET lang_len == LowBits(payload[1], 63)
                      lang == Slice(payload, 1, 1 + lang_len)
                  IN  IF ~IsAscii(lang) THEN Raise("UnicodeDecodeError")
                      ELSE info @@ [content_type |-> "Text",
                                    content |-> Utf8Replace(Slice(payload, 1 + lang_len, Len(payload))),
                                    language |-> lang]
        ELSE IF Contains(Lower(rec_type), STR_vcard)
        THEN info @@ [content_type |-> "vCard", content |-> Utf8Replace(payload)]
        ELSE IF Contains(Lower(rec_type), STR_wfa_wsc)
        THEN info @@ [content_type |-> "WiFi", content |-> "[WiFi Configuration Data]"]
        ELSE info @@ [content_type |-> "Unknown", content |-> hex(payload)]

\* struct.unpack(">I", field)[0]. A value of 2^24 or more is given as 2^24:
\* the model's integers are 32 bits wide, and the value is only the length
\* of a slice of an image that is far shorter.
UnpackI(field) ==
    IF field[1] > 0 THEN 16777216
    ELSE (field[2] * 256 + field[3]) * 256 + field[4]

\* the record header and what follows it, from index idx (0-based)
ParseRecord(data, idx) ==
    IF idx + 1 >= Len(data) THEN None      \* data[idx], data[idx + 1]: IndexError
    ELSE
    LET header == data[idx + 1]
        tnf == LowBits(header, 7)
        sr == BitSet(header, 16)
        type_len == data[idx + 2]
    IN  IF sr
        THEN IF idx + 2 >= Len(data) THEN None     \* data[idx + 2]: IndexError
             ELSE LET payload_len == data[idx + 3]
                      at == idx + 3
                  IN  Interpret(AsciiReplace(Slice(data, at, at + type_len)), tnf,
                                Slice(data, at + type_len, at + type_len + payload_len))
        ELSE LET field == Slice(data, idx + 2, idx + 6)
             IN  IF Len(field) # 4 THEN None       \* struct.error
                 ELSE LET payload_len == UnpackI(field)
                          at == idx + 6
                      IN  Interpret(AsciiReplace(Slice(data, at, at + type_len)), tnf,
                                    Slice(data, at + type_len, at + type_len + payload_len))

\* get_ndef_payload_info(data): None, the summary, or the exception it raises
get_ndef_payload_info(data) ==
    IF Len(data) < 5 THEN None
    ELSE IF data[1] # 3 THEN None
    ELSE IF data[2] = 255 THEN ParseRecord(data, 4)
    ELSE ParseRecord(data, 2)

\* bytes_to_hex(data): two upper-case hex digits per byte
HexDigit(n) == IF n < 10 THEN 48 + n ELSE 55 + n

RECURSIVE bytes_to_hex(_)
bytes_to_hex(bytes) ==
    IF bytes = <<>> THEN <<>>
    ELSE <<HexDigit(bytes[1] \div 16), HexDigit(bytes[1] % 16)>> \o bytes_to_hex(Tail(bytes))

\* whether bytes.decode("utf-8") succeeds (same sequences as Utf8Replace)
RECURSIVE Utf8Valid(_)
Utf8Valid(bytes) ==
    IF bytes = <<>> THEN TRUE
    ELSE IF bytes[1] < 128 THEN Utf8Valid(Tail(bytes))
    ELSE IF /\ bytes[1] \in 194..223
            /\ Len(bytes) >= 2
            /\ bytes[2] \in 128..191
    THEN Utf8Valid(Tail(Tail(bytes)))
    ELSE FALSE

\* PhoneNFCReader._ndef_to_web_nfc(ndef_data): the command, or the exception
\* that get_ndef_payload_info lets through
ndef_to_web_nfc(bytes) ==
    LET info == get_ndef_payload_info(bytes)
        raw == [cmd |-> "write", type |-> "raw", hex_data |-> bytes_to_hex(bytes)]
    IN  IF info.kind = "raise" THEN info
        ELSE IF info = None THEN raw
        ELSE IF info.content_type = "URL"
        THEN [cmd |-> "write", type |-> "url", url |-> info.content]
        ELSE IF info.content_type = "Text"
        THEN [cmd |-> "write", type |-> "text", text |-> info.content, lang |-> info.language]
        ELSE IF info.content_type = "vCard"
        THEN [cmd |-> "write", type |-> "mime", mime_type |-> "text/vcard",
              text_data |-> info.content]
        ELSE IF info.content_type = "WiFi"
        THEN [cmd |-> "write", type |-> "mime", mime_type |-> "application/vnd.wfa.wsc",
              hex_data |-> bytes_to_hex(info.raw_payload)]
        ELSE IF info.tnf = 2 /\ info.type # <<>>
        THEN IF Utf8Valid(info.raw_payload)
             THEN [cmd |-> "write", type |-> "mime", mime_type |-> info.type,
                   text_data |-> Utf8Replace(info.raw_payload)]
             ELSE [cmd |-> "write", type |-> "mime", mime_type |-> info.type,
                   hex_data |-> bytes_to_hex(info.raw_payload)]
        ELSE raw

\* ------------------------------------------------------- the NDEF encoder
\* Text is a sequence of code points below 2048 (what UTF-8 encodes in one or
\* two bytes). An encoder gives Bytes(image) or Raise(exception).

Bytes(image) == [kind |-> "bytes", value |-> image]

\* str.isspace() of one code point
IsSpace(c) == c \in {9, 10, 11, 12, 13, 28, 29, 30, 31, 32, 133, 160}

\* str.strip()
Strip(str) ==
    LET keep == {i \in 1..Len(str) : ~IsSpace(str[i])}
    IN  IF keep = {} THEN <<>>
        ELSE SubSeq(str, CHOOSE i \in keep : \A j \in keep : i <= j,
                         CHOOSE i \in keep : \A j \in keep : i >= j)

\* str.upper() on code points below 256 other than 181, 223 and 255
Upper(str) ==
    [i \in 1..Len(str) |->
        IF str[i] \in 97..122 \/ (str[i] \in 224..254 /\ str[i] # 247)
        THEN str[i] - 32 ELSE str[i]]

\* str.startswith(prefix)
StartsWith(str, prefix) ==
    Len(str) >= Len(prefix) /\ SubSeq(str, 1, Len(prefix)) = prefix

\* str.encode("utf-8")
RECURSIVE Utf8Encode(_)
Utf8Encode(str) ==
    IF str = <<>> THEN <<>>
    ELSE IF Len(str) = 1
    THEN IF str[1] < 128 THEN <<str[1]>>
         ELSE <<192 + (str[1] \div 64), 128 + (str[1] % 64)>>
    ELSE Utf8Encode(SubSeq(str, 1, Len(str) \div 2))
         \o Utf8Encode(SubSeq(str, Len(str) \div 2 + 1, Len(str)))

\* sep.join(parts)
RECURSIVE Join(_, _)
Join(parts, sep) ==
    IF parts = <<>> THEN <<>>
    ELSE IF Len(parts) = 1 THEN parts[1]
    ELSE parts[1] \o sep \o Join(Tail(parts), sep)

\* struct.pack of one big-endian unsigned field of width bytes (n fits)
RECURSIVE Pack(_, _)
Pack(n, width) ==
    IF width = 0 THEN <<>> ELSE Pack(n \div 256, width - 1) \o <<n % 256>>

\* _make_ndef_record with "len(payload) < 255" for "len(payload) <= 255"
make_ndef_record_254_short(tnf, rec_type, payload) ==
    LET flags == LowBits(tnf, 7) + 128 + 64
    IN  IF Len(payload) < 255
        THEN <<flags + 16, Len(rec_type), Len(payload)>> \o rec_type \o payload
        ELSE <<flags, Len(rec_type)>> \o Pack(Len(payload), 4) \o rec_type \o payload

\* _make_ndef_record(tnf, rec_type, payload) with is_first and is_last True
make_ndef_record(tnf, rec_type, payload) ==
    LET flags == LowBits(tnf, 7) + 128 + 64
    IN  IF Len(payload) <= 255
        THEN <<flags + 16, Len(rec_type), Len(payload)>> \o rec_type \o payload
        ELSE <<flags, Len(rec_type)>> \o Pack(Len(payload), 4) \o rec_type \o payload

\* _wrap_tlv with "length <= 0xFF" for "length < 0xFF"
wrap_tlv_255_short(ndef_message) ==
    LET length == Len(ndef_message)
    IN  IF length <= 255 THEN Bytes(<<3, length>> \o ndef_message \o <<254>>)
        ELSE IF length > 65535 THEN Raise("struct.error")
        ELSE Bytes(<<3, 255>> \o Pack(length, 2) \o ndef_message \o <<254>>)

\* _wrap_tlv(ndef_message)
wrap_tlv(ndef_message) ==
    LET length == Len(ndef_message)
    IN  IF length < 255 THEN Bytes(<<3, length>> \o ndef_message \o <<254>>)
        ELSE IF length > 65535 THEN Raise("struct.error")   \* pack(">H", length)
        ELSE Bytes(<<3, 255>> \o Pack(length, 2) \o ndef_message \o <<254>>)

\* sorted(URI_PREFIXES.items(), key=lambda x: -len(x[0])): longest first, the
\* dict's order among prefixes of one length
SortedPrefixes ==
    LET RECURSIVE OfLength(_)
        OfLength(n) ==
            IF n = 0 THEN <<>>
            ELSE SelectSeq(URI_PREFIXES, LAMBDA e : Len(e.prefix) = n) \o OfLength(n - 1)
        lens == {Len(URI_PREFIXES[i].prefix) : i \in DOMAIN URI_PREFIXES}
    IN  OfLength(CHOOSE n \in lens : \A m \in lens : n >= m)

\* encode_url(url)
encode_url(url_arg) ==
    LET url == Strip(url_arg)
        hits == {i \in DOMAIN SortedPrefixes : StartsWith(Lower(url), SortedPrefixes[i].prefix)}
        first == CHOOSE i \in hits : \A j \in hits : i <= j
        prefix_code == IF hits = {} THEN 0 ELSE SortedPrefixes[first].code
        uri_field == IF hits = {} THEN url
                     ELSE Slice(url, Len(SortedPrefixes[first].prefix), Len(url))
    IN  wrap_tlv(make_ndef_record(1, STR_U, <<prefix_code>> \o Utf8Encode(uri_field)))

\* encode_text(text, lang)
encode_text(text_arg, lang) ==
    LET text == Strip(text_arg)
    IN  IF ~IsAscii(lang) THEN Raise("UnicodeEncodeError")   \* lang.encode("ascii")
        ELSE wrap_tlv(make_ndef_record(1, STR_T,
                 <<LowBits(Len(lang), 63)>> \o lang \o Utf8Encode(text)))

\* encode_vcard(name, phone, email, org, title, url, address, note)
encode_vcard(name, phone, email, org, title, url, address, note) ==
    LET stripped == Strip(name)
        spaces == {i \in 1..Len(stripped) : IsSpace(stripped[i])}
        cut == CHOOSE i \in spaces : \A j \in spaces : i <= j
        rest == {i \in (cut + 1)..Len(stripped) : ~IsSpace(stripped[i])}
        \* name.strip().split(maxsplit=1)
        parts == IF stripped = <<>> THEN <<>>
                 ELSE IF spaces = {} THEN <<stripped>>
                 ELSE <<SubSeq(stripped, 1, cut - 1),
                        SubSeq(stripped, CHOOSE i \in rest : \A j \in rest : i <= j,
                               Len(stripped))>>
        Field(label, value, tail) ==
            IF value = <<>> THEN <<>> ELSE <<label \o Strip(value) \o tail>>
        lines ==
            <<<<66, 69, 71, 73, 78, 58, 86, 67, 65, 82, 68>>, <<86, 69, 82, 83, 73, 79, 78, 58, 51, 46, 48>>, <<70, 78, 58>> \o stripped>>
            \o <<IF Len(parts) = 2 THEN <<78, 58>> \o parts[2] \o <<59>> \o parts[1] \o <<59, 59, 59>>
                 ELSE <<78, 58>> \o parts[1] \o <<59, 59, 59, 59>>>>
            \o Field(<<84, 69, 76, 59, 84, 89, 80, 69, 61, 67, 69, 76, 76, 58>>, phone, <<>>)
            \o Field(<<69, 77, 65, 73, 76, 58>>, email, <<>>)
            \o Field(<<79, 82, 71, 58>>, org, <<>>)
            \o Field(<<84, 73, 84, 76, 69, 58>>, title, <<>>)
            \o Field(<<85, 82, 76, 58>>, url, <<>>)
            \o Field(<<65, 68, 82, 59, 84, 89, 80, 69, 61, 72, 79, 77, 69, 58, 59, 59>>, address, <<59, 59, 59, 59>>)
            \o Field(<<78, 79, 84, 69, 58>>, note, <<>>)
            \o <<<<69, 78, 68, 58, 86, 67, 65, 82, 68>>>>
    IN  IF parts = <<>> THEN Raise("IndexError")             \* parts[0]
        ELSE wrap_tlv(make_ndef_record(2, <<116, 101, 120, 116, 47, 118, 99, 97, 114, 100>>,
                                       Utf8Encode(Join(lines, <<13, 10>>))))

\* encode_phone(phone)
encode_phone(phone_arg) ==
    LET phone == SelectSeq(Strip(phone_arg), LAMBDA c : c \notin {32, 45})
    IN  wrap_tlv(make_ndef_record(1, STR_U, <<5>> \o Utf8Encode(phone)))

\* encode_email(email, subject, body)
encode_email(email, subject, body) ==
    LET params == (IF subject = <<>> THEN <<>> ELSE <<<<115, 117, 98, 106, 101, 99, 116, 61>> \o subject>>)
                  \o (IF body = <<>> THEN <<>> ELSE <<<<98, 111, 100, 121, 61>> \o body>>)
        mailto == Strip(email)
                  \o (IF params = <<>> THEN <<>> ELSE <<63>> \o Join(params, <<38>>))
    IN  wrap_tlv(make_ndef_record(1, STR_U, <<6>> \o Utf8Encode(mailto)))

\* SOCIAL_PLATFORMS: each platform with its template up to the "{}" that
\* ends it
SOCIAL_PLATFORMS ==
    <<
       \* facebook: https://facebook.com/{}
       [name |-> <<102, 97, 99, 101, 98, 111, 111, 107>>,
        url |-> <<104, 116, 116, 112, 115, 58, 47, 47, 102, 97, 99, 101, 98, 111, 111, 107, 46, 99, 111, 109, 47>>],
       \* instagram: https://instagram.com/{}
       [name |-> <<105, 110, 115, 116, 97, 103, 114, 97, 109>>,
        url |-> <<104, 116, 116, 112, 115, 58, 47, 47, 105, 110, 115, 116, 97, 103, 114, 97, 109, 46, 99, 111, 109, 47>>],
       \* twitter: https://twitter.com/{}
       [name |-> <<116, 119, 105, 116, 116, 101, 114>>,
        url |-> <<104, 116, 116, 112, 115, 58, 47, 47, 116, 119, 105, 116, 116, 101, 114, 46, 99, 111, 109, 47>>],
       \* x: https://x.com/{}
       [name |-> <<120>>,
        url |-> <<104, 116, 116, 112, 115, 58, 47, 47, 120, 46, 99, 111, 109, 47>>],
       \* tiktok: https://tiktok.com/@{}
       [name |-> <<116, 105, 107, 116, 111, 107>>,
        url |-> <<104, 116, 116, 112, 115, 58, 47, 47, 116, 105, 107, 116, 111, 107, 46, 99, 111, 109, 47, 64>>],
       \* youtube: https://youtube.com/@{}
       [name |-> <<121, 111, 117, 116, 117, 98, 101>>,
        url |-> <<104, 116, 116, 112, 115, 58, 47, 47, 121, 111, 117, 116, 117, 98, 101, 46, 99, 111, 109, 47, 64>>],
       \* linkedin: https://linkedin.com/in/{}
       [name |-> <<108, 105, 110, 107, 101, 100, 105, 110>>,
        url |-> <<104, 116, 116, 112, 115, 58, 47, 47, 108, 105, 110, 107, 101, 100, 105, 110, 46, 99, 111, 109, 47, 105, 110, 47>>],
       \* github: https://github.com/{}
       [name |-> <<103, 105, 116, 104, 117, 98>>,
        url |-> <<104, 116, 116, 112, 115, 58, 47, 47, 103, 105, 116, 104, 117, 98, 46, 99, 111, 109, 47>>],
       \* telegram: https://t.me/{}
       [name |-> <<116, 101, 108, 101, 103, 114, 97, 109>>,
        url |-> <<104, 116, 116, 112, 115, 58, 47, 47, 116, 46, 109, 101, 47>>],
       \* snapchat: https://snapchat.com/add/{}
       [name |-> <<115, 110, 97, 112, 99, 104, 97, 116>>,
        url |-> <<104, 116, 116, 112, 115, 58, 47, 47, 115, 110, 97, 112, 99, 104, 97, 116, 46, 99, 111, 109, 47, 97, 100, 100, 47>>],
       \* reddit: https://reddit.com/u/{}
       [name |-> <<114, 101, 100, 100, 105, 116>>,
        url |-> <<104, 116, 116, 112, 115, 58, 47, 47, 114, 101, 100, 100, 105, 116, 46, 99, 111, 109, 47, 117, 47>>],
       \* pinterest: https://pinterest.com/{}
       [name |-> <<112, 105, 110, 116, 101, 114, 101, 115, 116>>,
        url |-> <<104, 116, 116, 112, 115, 58, 47, 47, 112, 105, 110, 116, 101, 114, 101, 115, 116, 46, 99, 111, 109, 47>>],
       \* whatsapp: https://wa.me/{}
       [name |-> <<119, 104, 97, 116, 115, 97, 112, 112>>,
        url |-> <<104, 116, 116, 112, 115, 58, 47, 47, 119, 97, 46, 109, 101, 47>>],
       \* discord: https://discord.gg/{}
       [name |-> <<100, 105, 115, 99, 111, 114, 100>>,
        url |-> <<104, 116, 116, 112, 115, 58, 47, 47, 100, 105, 115, 99, 111, 114, 100, 46, 103, 103, 47>>],
       \* spotify: https://open.spotify.com/user/{}
       [name |-> <<115, 112, 111, 116, 105, 102, 121>>,
        url |-> <<104, 116, 116, 112, 115, 58, 47, 47, 111, 112, 101, 110, 46, 115, 112, 111, 116, 105, 102, 121, 46, 99, 111, 109, 47, 117, 115, 101, 114, 47>>],
       \* twitch: https://twitch.tv/{}
       [name |-> <<116, 119, 105, 116, 99, 104>>,
        url |-> <<104, 116, 116, 112, 115, 58, 47, 47, 116, 119, 105, 116, 99, 104, 46, 116, 118, 47>>],
       \* threads: https://threads.net/@{}
       [name |-> <<116, 104, 114, 101, 97, 100, 115>>,
        url |-> <<104, 116, 116, 112, 115, 58, 47, 47, 116, 104, 114, 101, 97, 100, 115, 46, 110, 101, 116, 47, 64>>]
    >>

\* encode_social without .lstrip("@")
encode_social_keep_at(platform_arg, username_arg) ==
    LET platform == Lower(Strip(platform_arg))
        username == Strip(username_arg)
        hits == {i \in DOMAIN SOCIAL_PLATFORMS : SOCIAL_PLATFORMS[i].name = platform}
    IN  IF hits = {} THEN Raise("ValueError")
        ELSE encode_url(SOCIAL_PLATFORMS[CHOOSE i \in hits : TRUE].url \o username)

\* encode_social(platform, username)
encode_social(platform_arg, username_arg) ==
    LET platform == Lower(Strip(platform_arg))
        trimmed == Strip(username_arg)
        keep == {i \in 1..Len(trimmed) : trimmed[i] # 64}
        \* .lstrip("@")
        username == IF keep = {} THEN <<>>
                    ELSE SubSeq(trimmed, CHOOSE i \in keep : \A j \in keep : i <= j,
                                Len(trimmed))
        hits == {i \in DOMAIN SOCIAL_PLATFORMS : SOCIAL_PLATFORMS[i].name = platform}
    IN  IF hits = {} THEN Raise("ValueError")
        ELSE encode_url(SOCIAL_PLATFORMS[CHOOSE i \in hits : TRUE].url \o username)

\* "OPEN", "WPA", "WPA2", "WPA2-EAP"
STR_OPEN == <<79, 80, 69, 78>>
STR_WPA == <<87, 80, 65>>
STR_WPA2 == <<87, 80, 65, 50>>
STR_WPA2_EAP == <<87, 80, 65, 50, 45, 69, 65, 80>>

\* auth_map.get(auth_type.upper(), 0x0020) with a map that has no entry "WPA"
auth_val_no_wpa(auth_type) ==
    IF Upper(auth_type) = STR_OPEN THEN 1 ELSE 32

\* encode_wifi: auth_map.get(auth_type.upper(), 0x0020)
auth_val(auth_type) ==
    CASE Upper(auth_type) = STR_OPEN -> 1
      [] Upper(auth_type) = STR_WPA -> 2
      [] Upper(auth_type) = STR_WPA2 -> 32
      [] Upper(auth_type) = STR_WPA2_EAP -> 32
      [] OTHER -> 32

\* encode_wifi: enc_val
enc_val(auth_type) == IF Upper(auth_type) # STR_OPEN THEN 4 ELSE 1

\* one attribute of Wi-Fi Simple Config: struct.pack(">HH", id, len(value)) + value
Attr(id, value) == Pack(id, 2) \o Pack(Len(value), 2) \o value

\* encode_wifi(ssid, password, auth_type); hidden is not read
encode_wifi(ssid, password, auth_type) ==
    LET credential ==
            Attr(4134, <<1>>)                                  \* 0x1026 network index
            \o Attr(4165, Utf8Encode(ssid))                    \* 0x1045 SSID
            \o Attr(4099, Pack(auth_val(auth_type), 2))        \* 0x1003 authentication
            \o Attr(4111, Pack(enc_val(auth_type), 2))         \* 0x100F encryption
            \o (IF password = <<>> THEN <<>>
                ELSE Attr(4135, Utf8Encode(password)))         \* 0x1027 network key
            \o Attr(4128, <<255, 255, 255, 255, 255, 255>>)    \* 0x1020 MAC address
    IN  wrap_tlv(make_ndef_record(2, <<97, 112, 112, 108, 105, 99, 97, 116, 105, 111, 110, 47, 118, 110, 100, 46, 119, 102, 97, 46, 119, 115, 99>>, Attr(4110, credential)))   \* 0x100E

\* the call c of an encoder
Apply(c) ==
    CASE c.op = "encode_url" -> encode_url(c.url)
      [] c.op = "encode_text" -> encode_text(c.text, c.lang)
      [] c.op = "encode_vcard" ->
            encode_vcard(c.name, c.phone, c.email, c.org, c.title, c.url, c.address, c.note)
      [] c.op = "encode_phone" -> encode_phone(c.phone)
      [] c.op = "encode_email" -> encode_email(c.email, c.subject, c.body)
      [] c.op = "encode_social" -> encode_social(c.platform, c.username)
      [] c.op = "encode_wifi" -> encode_wifi(c.ssid, c.password, c.auth_type)

\* ------------------------------------------------------------ the state

\* the images a caller passes to write_ndef: a URI record (https:// + "e"), a
\* Text record whose language byte is not ASCII, and encode_empty_ndef()
IMG_URL == <<3, 6, 209, 1, 2, 85, 4, 101, 254>>
IMG_TEXT_BAD_LANG == <<3, 7, 209, 1, 3, 84, 1, 128, 101, 254>>
IMG_EMPTY == <<3, 0, 254>>
Images == {IMG_URL, IMG_TEXT_BAD_LANG, IMG_EMPTY}

Conns == {"c1", "c2"}

\* the connection of a phone that opens one at a time
OneConn == {"c1"}

InitSession ==
    /\ _lock = NoThread
    /\ _connected = FALSE
    /\ _serial = "None"
    /\ owed = {}
    /\ _phone_ready = FALSE
    /\ _nfc_supported = FALSE
    /\ _ws_client = "None"
    /\ _loop = FALSE
    /\ _pending_response = None
    /\ _response_event = FALSE
    /\ server_alive = FALSE
    /\ conn = [c \in Conns |-> "closed"]
    /\ phone_pending = [c \in Conns |-> {}]

InitThreads ==
    /\ pc = [t \in Threads |-> "idle"]
    /\ call = [t \in Threads |-> ""]
    /\ ndef_data = [t \in Threads |-> <<>>]
    /\ attempt = [t \in Threads |-> 0]
    /\ resp = [t \in Threads |-> NoResp]
    /\ result = [t \in Threads |-> NoResp]
    /\ ret = [t \in Threads |-> NoReturn]
    /\ log = [t \in Threads |-> <<>>]

\* decoded before get_ndef_payload_info has run
NotDecoded == [kind |-> "pending"]

InitCodec ==
    /\ ndef_image = <<>>
    /\ decoded = NotDecoded

\* encoded before the encoder has run
NotEncoded == [kind |-> "pending"]
NoCall == [op |-> ""]

InitEnc ==
    /\ encode_call = NoCall
    /\ encoded = NotEncoded

InitCli ==
    /\ cli_pc = "menu"
    /\ depth = 0
    /\ cli_result = NoReturn
    /\ erase_result = NoReturn
    /\ cli_log = <<>>

\* no bulk session has been started
InitBulk ==
    /\ bulk_pc = "menu"
    /\ written = 0
    /\ failed = 0
    /\ total_written = 0
    /\ total_failed = 0
    /\ ended_at = FALSE

\* RFIDReader.__init__ and PhoneNFCReader.__init__ on the configuration cfg
Construct(cfg) ==
    /\ port = cfg.port
    /\ max_retries = cfg.max_retries
    /\ verify_after_write = cfg.verify_after_write

\* a reader built with no config.json
InitConfig ==
    /\ config = DEFAULT_CONFIG
    /\ Construct(config)

\* the same reader once connect has detected the port
InitConfigConnected ==
    /\ config = DEFAULT_CONFIG
    /\ port = DetectedPort
    /\ max_retries = config.max_retries
    /\ verify_after_write = config.verify_after_write

\* connect_reader builds an RFIDReader or a PhoneNFCReader
Init ==
    /\ reader_mode \in {"arduino", "phone"}
    /\ InitSession
    /\ InitThreads
    /\ InitCodec
    /\ InitCli
    /\ InitEnc
    /\ InitBulk
    /\ InitConfig

\* the methods that run inside "with self._lock:" (PhoneNFCReader's connect
\* and disconnect take no lock)
Locking(c) == ~(reader_mode = "phone" /\ c \in {"connect", "disconnect"})

\* a thread calls a public method of the reader and reaches its first
\* statement, "with self._lock:". Which method it is, and its argument, matter
\* from Acquire on.
Calls(t) ==
    /\ pc[t] = "idle"
    /\ pc' = [pc EXCEPT ![t] = "acquire"]
    /\ UNCHANGED <<call, ndef_data, attempt, resp, result, ret, log>>

Call(t) ==
    /\ Calls(t)
    /\ UNCHANGED <<otherVars, sessVars, rfidVars, phoneVars>>

\* a thread calls PhoneNFCReader.connect or disconnect
CallUnlocked(t, c) ==
    /\ pc[t] = "idle"
    /\ ~Locking(c)
    /\ call' = [call EXCEPT ![t] = c]
    /\ pc' = [pc EXCEPT ![t] = "nolock"]
    /\ UNCHANGED <<otherVars, sessVars, rfidVars, phoneVars>>
    /\ UNCHANGED <<ndef_data, attempt, resp, result, ret, log>>

\* Acquire with a lock that never blocks
AcquireUnguarded(t, c, image) ==
    /\ pc[t] \in {"acquire", "reconnect", "reconnect_connect"}
    /\ _lock' = t
    /\ IF pc[t] = "acquire"
       THEN /\ Locking(c)
            /\ call' = [call EXCEPT ![t] = c]
            /\ ndef_data' = [ndef_data EXCEPT ![t] = image]
            /\ pc' = [pc EXCEPT ![t] = "locked"]
       ELSE /\ c = call[t]
            /\ image = ndef_data[t]
            /\ pc' = [pc EXCEPT ![t] = IF pc[t] = "reconnect" THEN "in_disconnect"
                                       ELSE "in_connect"]
            /\ UNCHANGED <<call, ndef_data>>
    /\ UNCHANGED <<otherVars, reader_mode, _connected, rfidVars, phoneVars>>
    /\ UNCHANGED <<attempt, resp, result, ret, log>>

\* "with self._lock:" of method c, called with image (threading.Lock is not
\* reentrant: it blocks whoever holds it, the caller included). "reconnect"
\* and "reconnect_connect" are the with statements of disconnect() and
\* connect() reached through reconnect().
Acquire(t, c, image) ==
    /\ pc[t] \in {"acquire", "reconnect", "reconnect_connect"}
    /\ _lock = NoThread
    /\ _lock' = t
    /\ IF pc[t] = "acquire"
       THEN /\ Locking(c)
            /\ call' = [call EXCEPT ![t] = c]
            /\ ndef_data' = [ndef_data EXCEPT ![t] = image]
            /\ pc' = [pc EXCEPT ![t] = "locked"]
       ELSE /\ c = call[t]
            /\ image = ndef_data[t]
            /\ pc' = [pc EXCEPT ![t] = IF pc[t] = "reconnect" THEN "in_disconnect"
                                       ELSE "in_connect"]
            /\ UNCHANGED <<call, ndef_data>>
    /\ UNCHANGED <<otherVars, reader_mode, _connected, rfidVars, phoneVars>>
    /\ UNCHANGED <<attempt, resp, result, ret, log>>

\* the value is returned (or the exception leaves) and the with block
\* releases the lock
Returned(t) ==
    /\ pc[t] = "done"
    /\ _lock' = IF _lock = t THEN NoThread ELSE _lock
    /\ pc' = [pc EXCEPT ![t] = "idle"]
    /\ call' = [call EXCEPT ![t] = ""]
    /\ ndef_data' = [ndef_data EXCEPT ![t] = <<>>]
    /\ attempt' = [attempt EXCEPT ![t] = 0]
    /\ resp' = [resp EXCEPT ![t] = NoResp]
    /\ result' = [result EXCEPT ![t] = NoResp]
    /\ ret' = [ret EXCEPT ![t] = NoReturn]
    /\ log' = [log EXCEPT ![t] = <<>>]
    /\ UNCHANGED <<reader_mode, _connected, rfidVars, phoneVars>>

Return(t) ==
    /\ Returned(t)
    /\ UNCHANGED otherVars

\* ------------------------------------------------- the Serial transport

Exhausted == [success |-> FALSE, error |-> "Failed after max_retries attempts"]

\* "return <value>" inside the with block
Returns(t, value) ==
    /\ ret' = [ret EXCEPT ![t] = value]
    /\ pc' = [pc EXCEPT ![t] = "done"]

\* Continue with a loop that runs once more than range(1, max_retries + 1)
ContinueOnceMore(t) ==
    IF attempt[t] <= max_retries
    THEN /\ attempt' = [attempt EXCEPT ![t] = attempt[t] + 1]
         /\ pc' = [pc EXCEPT ![t] = IF reader_mode = "arduino" THEN "send" ELSE "cmd_check"]
         /\ ret' = ret
    ELSE /\ Returns(t, Exhausted)
         /\ attempt' = attempt

\* the end of one iteration of write_ndef's for loop that did not return: the
\* next attempt, or the return after the loop
Continue(t) ==
    IF attempt[t] < max_retries
    THEN /\ attempt' = [attempt EXCEPT ![t] = attempt[t] + 1]
         /\ pc' = [pc EXCEPT ![t] = IF reader_mode = "arduino" THEN "send" ELSE "cmd_check"]
         /\ ret' = ret
    ELSE /\ Returns(t, Exhausted)
         /\ attempt' = attempt

\* RFIDReader.connect, inside its with block. how: what the port scan, the
\* open and the ping do (no port found; serial.Serial raises; the device
\* answers PONG, answers another line, or stays silent for the ping's 3 s).
ConnectHows == {"no_port", "open_fails", "pong", "other_line", "silent"}

\* connect with a ping that must be answered by PONG
RfidConnectResultStrict(how) ==
    IF RfidConnected THEN TRUE ELSE how = "pong"

RfidConnectResult(how) ==
    IF RfidConnected THEN TRUE ELSE how \notin {"no_port", "open_fails"}

\* a connect that never takes the early return
AlwaysOpens == FALSE

\* connect's "if self.connected: return True"
AlreadyConnected == RfidConnected

RfidConnect(t, how) ==
    /\ reader_mode = "arduino"
    /\ \/ pc[t] = "locked" /\ call[t] = "connect"
       \/ pc[t] = "in_connect"
    \* find_arduino_port runs only when the port is "auto"
    /\ RfidConnected \/ port = "auto" \/ how # "no_port"
    /\ IF AlreadyConnected
       THEN UNCHANGED <<_connected, _serial, owed, port>>
       ELSE IF how = "no_port"
       THEN UNCHANGED <<_connected, _serial, owed, port>>
       ELSE IF how = "open_fails"
       THEN _serial' = "None" /\ _connected' = FALSE /\ UNCHANGED <<owed, port>>
       ELSE \* the device resets when the port is opened, and
            \* reset_input_buffer drops what was read before
            /\ _serial' = "open"
            /\ owed' = {}
            /\ _connected' = TRUE
            /\ port' = IF port = "auto" THEN DetectedPort ELSE port
    /\ IF pc[t] = "locked"
       THEN /\ Returns(t, [value |-> RfidConnectResult(how)])
            /\ UNCHANGED <<_lock, attempt>>
       ELSE IF call[t] = "write_ndef"
       THEN \* reconnect() returns into write_ndef's except clause: continue
            /\ _lock' = NoThread
            /\ Continue(t)
       ELSE \* reconnect() called by handle_settings returns connect()'s value
            /\ _lock' = NoThread
            /\ Returns(t, [value |-> RfidConnectResult(how)])
            /\ attempt' = attempt
    /\ log' = [log EXCEPT ![t] = IF AlreadyConnected THEN @ ELSE Append(@, Ev("connect", how))]
    /\ UNCHANGED <<codecVars, cliVars, encVars, bulkVars, config, max_retries, verify_after_write>>
    /\ UNCHANGED <<reader_mode, phoneVars, call, ndef_data, resp, result>>

\* what a disconnect found (kept in log; the program does not see it)
Found(was_connected, partly) ==
    IF was_connected THEN "connected" ELSE IF partly THEN "partly" ELSE "not_connected"

\* a disconnect that closes the port and keeps the handle
RfidDisconnectKeepsHandle(t) ==
    /\ reader_mode = "arduino"
    /\ \/ pc[t] = "locked" /\ call[t] = "disconnect"
       \/ pc[t] = "in_disconnect"
    /\ _serial' = _serial
    /\ owed' = owed
    /\ _connected' = FALSE
    /\ IF pc[t] = "locked"
       THEN /\ Returns(t, [value |-> "None"])
            /\ log' = [log EXCEPT ![t] =
                          Append(@, Ev("disconnect", Found(RfidConnected, FALSE)))]
            /\ UNCHANGED _lock
       ELSE /\ _lock' = NoThread
            /\ pc' = [pc EXCEPT ![t] = "reconnect_connect"]
            /\ log' = [log EXCEPT ![t] =
                          Append(@, Ev("disconnect", Found(RfidConnected, FALSE)))]
            /\ ret' = ret
    /\ UNCHANGED <<otherVars, reader_mode, phoneVars, call, ndef_data, attempt, resp, result>>

\* RFIDReader.disconnect, inside its with block
RfidDisconnect(t) ==
    /\ reader_mode = "arduino"
    /\ \/ pc[t] = "locked" /\ call[t] = "disconnect"
       \/ pc[t] = "in_disconnect"
    /\ _serial' = "None"
    /\ owed' = owed
    /\ _connected' = FALSE
    /\ IF pc[t] = "locked"
       THEN /\ Returns(t, [value |-> "None"])
            /\ log' = [log EXCEPT ![t] =
                          Append(@, Ev("disconnect", Found(RfidConnected, FALSE)))]
            /\ UNCHANGED _lock
       ELSE \* back in reconnect(): sleep, then connect()
            /\ _lock' = NoThread
            /\ pc' = [pc EXCEPT ![t] = "reconnect_connect"]
            /\ log' = [log EXCEPT ![t] =
                          Append(@, Ev("disconnect", Found(RfidConnected, FALSE)))]
            /\ ret' = ret
    /\ UNCHANGED <<otherVars, reader_mode, phoneVars, call, ndef_data, attempt, resp, result>>

\* RfidBegin without the connected test
RfidBeginNoTest(t) ==
    /\ reader_mode = "arduino"
    /\ pc[t] = "locked"
    /\ call[t] \in TagOps
    /\ attempt' = [attempt EXCEPT ![t] = 1]
    /\ pc' = [pc EXCEPT ![t] = "send"]
    /\ ret' = ret
    /\ UNCHANGED <<otherVars, sessVars, rfidVars, phoneVars, call, ndef_data, resp, result, log>>

\* RfidBegin with a loop that tests its budget after the first attempt
RfidBeginAtLeastOnce(t) ==
    /\ reader_mode = "arduino"
    /\ pc[t] = "locked"
    /\ call[t] \in TagOps
    /\ IF ~RfidConnected
       THEN /\ Returns(t, [success |-> FALSE, error |-> "Not connected"])
            /\ attempt' = attempt
       ELSE /\ attempt' = [attempt EXCEPT ![t] = 1]
            /\ pc' = [pc EXCEPT ![t] = "send"]
            /\ ret' = ret
    /\ UNCHANGED <<otherVars, sessVars, rfidVars, phoneVars, call, ndef_data, resp, result, log>>

\* the head of write_ndef / erase_tag / read_tag / lock_tag / get_tag_info:
\* the connected test, and for write_ndef the entry of the for loop
RfidBegin(t) ==
    /\ reader_mode = "arduino"
    /\ pc[t] = "locked"
    /\ call[t] \in TagOps
    /\ IF ~RfidConnected
       THEN /\ Returns(t, [success |-> FALSE, error |-> "Not connected"])
            /\ attempt' = attempt
       ELSE IF call[t] = "write_ndef" /\ max_retries < 1
       THEN /\ Returns(t, Exhausted)
            /\ attempt' = attempt
       ELSE /\ attempt' = [attempt EXCEPT ![t] = 1]
            /\ pc' = [pc EXCEPT ![t] = "send"]
            /\ ret' = ret
    /\ UNCHANGED <<otherVars, sessVars, rfidVars, phoneVars, call, ndef_data, resp, result, log>>

\* self._send(command). fault: the channel raises serial.SerialException.
RfidSend(t, fault) ==
    /\ reader_mode = "arduino"
    /\ pc[t] = "send"
    /\ IF _serial # "open"
       THEN \* ConnectionError is not a SerialException: no handler catches it
            /\ Returns(t, [raised |-> "ConnectionError"])
            /\ log' = log
       ELSE IF ~fault
       THEN /\ log' = [log EXCEPT ![t] = Append(@, Ev("send", Command(call[t])))]
            /\ pc' = [pc EXCEPT ![t] = "tap_wait"]
            /\ ret' = ret
       ELSE IF call[t] = "write_ndef"
       THEN \* except serial.SerialException: self.reconnect(); continue
            /\ log' = [log EXCEPT ![t] = Append(@, Ev("fault", Command(call[t])))]
            /\ pc' = [pc EXCEPT ![t] = "reconnect"]
            /\ ret' = ret
       ELSE /\ log' = [log EXCEPT ![t] = Append(@, Ev("fault", Command(call[t])))]
            /\ Returns(t, [success |-> FALSE, error |-> "SerialException"])
    /\ UNCHANGED <<otherVars, sessVars, rfidVars, phoneVars, call, ndef_data, attempt, resp, result>>

\* the value of info built from TAG_INFO's data: the key:value pairs of the
\* comma-separated list, pairs without ":" dropped
ParseInfo(data) ==
    IF data = "uid:04A1B2" THEN [uid |-> "04A1B2"] ELSE [k \in {} |-> ""]

\* WriteAfterTap without the "elif resp["status"] == RESP_ERROR" branch: an
\* ERROR of the tap wait goes to the next attempt
WriteAfterTapRetries(t, r) ==
    IF r.status = RESP_TAP_CARD
    THEN /\ log' = [log EXCEPT ![t] = Append(Append(@, Ev("wait", r.status)), Ev("prompt", ""))]
         /\ pc' = [pc EXCEPT ![t] = "result_wait"]
         /\ UNCHANGED <<ret, attempt>>
    ELSE /\ log' = [log EXCEPT ![t] = Append(@, Ev("wait", r.status))]
         /\ Continue(t)

\* what write_ndef does with the dict r of the tap wait
WriteAfterTap(t, r) ==
    IF r.status = RESP_TAP_CARD
    THEN /\ log' = [log EXCEPT ![t] = Append(Append(@, Ev("wait", r.status)), Ev("prompt", ""))]
         /\ pc' = [pc EXCEPT ![t] = "result_wait"]
         /\ UNCHANGED <<ret, attempt>>
    ELSE /\ log' = [log EXCEPT ![t] = Append(@, Ev("wait", r.status))]
         /\ IF r.status = RESP_ERROR
            THEN /\ Returns(t, [success |-> FALSE, error |-> r.data])
                 /\ attempt' = attempt
            ELSE Continue(t)

\* WriteAfterResult with the uid of a DUPLICATE taken from the tap dict
WriteAfterResultTapUid(t, r) ==
    /\ log' = [log EXCEPT ![t] = Append(@, Ev("wait", r.status))]
    /\ IF r.status = RESP_WRITE_OK
       THEN /\ Returns(t, [success |-> TRUE, uid |-> r.data,
                           attempts |-> attempt[t], verified |-> FALSE])
            /\ attempt' = attempt
       ELSE IF r.status = RESP_VERIFY_OK
       THEN /\ Returns(t, [success |-> TRUE, uid |-> r.data,
                           attempts |-> attempt[t], verified |-> TRUE])
            /\ attempt' = attempt
       ELSE IF r.status = RESP_DUPLICATE
       THEN /\ Returns(t, [success |-> FALSE, error |-> "Tag already contains data",
                           duplicate |-> TRUE, uid |-> resp[t].data])
            /\ attempt' = attempt
       ELSE Continue(t)

\* WriteAfterResult that reports WRITE_OK as verified
WriteAfterResultVerifiesAll(t, r) ==
    /\ log' = [log EXCEPT ![t] = Append(@, Ev("wait", r.status))]
    /\ IF r.status \in {RESP_WRITE_OK, RESP_VERIFY_OK}
       THEN /\ Returns(t, [success |-> TRUE, uid |-> r.data,
                           attempts |-> attempt[t], verified |-> TRUE])
            /\ attempt' = attempt
       ELSE IF r.status = RESP_DUPLICATE
       THEN /\ Returns(t, [success |-> FALSE, error |-> "Tag already contains data",
                           duplicate |-> TRUE, uid |-> r.data])
            /\ attempt' = attempt
       ELSE Continue(t)

\* what write_ndef does with the dict r of the result wait
WriteAfterResult(t, r) ==
    /\ log' = [log EXCEPT ![t] = Append(@, Ev("wait", r.status))]
    /\ IF r.status = RESP_WRITE_OK
       THEN /\ Returns(t, [success |-> TRUE, uid |-> r.data,
                           attempts |-> attempt[t], verified |-> FALSE])
            /\ attempt' = attempt
       ELSE IF r.status = RESP_VERIFY_OK
       THEN /\ Returns(t, [success |-> TRUE, uid |-> r.data,
                           attempts |-> attempt[t], verified |-> TRUE])
            /\ attempt' = attempt
       ELSE IF r.status = RESP_DUPLICATE
       THEN /\ Returns(t, [success |-> FALSE, error |-> "Tag already contains data",
                           duplicate |-> TRUE, uid |-> r.data])
            /\ attempt' = attempt
       ELSE \* WRITE_FAIL continues; ERROR and TIMEOUT fall out of the if chain
            Continue(t)

\* the value erase_tag, read_tag, lock_tag and get_tag_info return for the
\* dict of the result wait (tap: the dict of the tap wait)
SingleResult(c, tap, r) ==
    CASE c = "erase_tag" /\ r.status = RESP_ERASE_OK -> [success |-> TRUE, uid |-> r.data]
      [] c = "lock_tag" /\ r.status = RESP_LOCK_OK -> [success |-> TRUE, uid |-> r.data]
      [] c = "read_tag" /\ r.status \in {RESP_READ_OK, RESP_DATA, RESP_TAG_INFO} ->
            [success |-> TRUE, data |-> r.data]
      [] c = "read_tag" /\ r.status = RESP_NO_TAG ->
            [success |-> FALSE, error |-> "No tag detected"]
      [] c = "get_tag_info" /\ r.status = RESP_TAG_INFO ->
            [success |-> TRUE, info |-> ParseInfo(r.data)]
      [] OTHER -> [success |-> FALSE, error |-> tap.data]

\* SingleAfterTap that calls on_tap_prompt whatever ended the tap wait
SingleAfterTapPromptsAlways(t, r) ==
    IF r.status = RESP_TAP_CARD
    THEN /\ log' = [log EXCEPT ![t] = Append(Append(@, Ev("wait", r.status)), Ev("prompt", ""))]
         /\ pc' = [pc EXCEPT ![t] = "result_wait"]
         /\ UNCHANGED <<ret, attempt>>
    ELSE /\ log' = [log EXCEPT ![t] = Append(Append(@, Ev("wait", r.status)), Ev("prompt", ""))]
         /\ Returns(t, [success |-> FALSE, error |-> r.data])
         /\ attempt' = attempt

\* the single-shot operations after the tap wait
SingleAfterTap(t, r) ==
    IF r.status = RESP_TAP_CARD
    THEN /\ log' = [log EXCEPT ![t] = Append(Append(@, Ev("wait", r.status)), Ev("prompt", ""))]
         /\ pc' = [pc EXCEPT ![t] = "result_wait"]
         /\ UNCHANGED <<ret, attempt>>
    ELSE /\ log' = [log EXCEPT ![t] = Append(@, Ev("wait", r.status))]
         /\ Returns(t, [success |-> FALSE, error |-> r.data])
         /\ attempt' = attempt

\* SingleAfterResult that sends the command again after a result that is not
\* a success
SingleAfterResultResends(t, r) ==
    /\ log' = [log EXCEPT ![t] = Append(@, Ev("wait", r.status))]
    /\ attempt' = attempt
    /\ IF SingleResult(call[t], resp[t], r).success
       THEN Returns(t, SingleResult(call[t], resp[t], r))
       ELSE pc' = [pc EXCEPT ![t] = "send"] /\ ret' = ret

\* the single-shot operations after the result wait
SingleAfterResult(t, r) ==
    /\ log' = [log EXCEPT ![t] = Append(@, Ev("wait", r.status))]
    /\ Returns(t, SingleResult(call[t], resp[t], r))
    /\ attempt' = attempt

\* a wait (_wait_for_response) ends with the dict r
WaitEnds(t, r) ==
    /\ resp' = [resp EXCEPT ![t] = IF pc[t] = "tap_wait" THEN r ELSE @]
    /\ result' = [result EXCEPT ![t] = IF pc[t] = "result_wait" THEN r ELSE @]
    /\ IF call[t] = "write_ndef"
       THEN IF pc[t] = "tap_wait" THEN WriteAfterTap(t, r) ELSE WriteAfterResult(t, r)
       ELSE IF pc[t] = "tap_wait" THEN SingleAfterTap(t, r) ELSE SingleAfterResult(t, r)

\* _wait_for_response reads a line of the device
RfidReadLine(t, line) ==
    /\ reader_mode = "arduino"
    /\ pc[t] \in {"tap_wait", "result_wait"}
    /\ LET expected == IF pc[t] = "tap_wait" THEN TapExpected ELSE ResultExpected(call[t])
           r == WaitForResponse(expected, line)
       IN  IF r = NoResp
           THEN UNCHANGED <<pc, attempt, resp, result, ret, log>>
           ELSE WaitEnds(t, r)
    /\ UNCHANGED <<otherVars, sessVars, rfidVars, phoneVars, call, ndef_data>>

\* a _wait_for_response whose loop has no time limit
RfidWaitForever(t) ==
    /\ reader_mode = "arduino"
    /\ pc[t] \in {"tap_wait", "result_wait"}
    /\ UNCHANGED vars

\* _wait_for_response runs out of time (5 s for the tap, 30 s for the result)
RfidWaitTimeout(t) ==
    /\ reader_mode = "arduino"
    /\ pc[t] \in {"tap_wait", "result_wait"}
    /\ WaitEnds(t, WaitTimedOut)
    /\ UNCHANGED <<otherVars, sessVars, rfidVars, phoneVars, call, ndef_data>>

RfidNext ==
    \E t \in Threads :
        \/ \E how \in ConnectHows : RfidConnect(t, how)
        \/ RfidDisconnect(t)
        \/ RfidBegin(t)
        \/ \E fault \in BOOLEAN : RfidSend(t, fault)
        \/ \E line \in Lines : RfidReadLine(t, line)
        \/ RfidWaitTimeout(t)

\* ------------------------------------------------- the Bridge transport

\* PhoneNFCReader.connected
PhoneConnected == _connected /\ _phone_ready

\* the replies of the phone's page to a command.
PhoneReplies ==
    {[event |-> "write_ok", uid |-> "04A1B2", verified |-> TRUE],
     [event |-> "error", error |-> "NotAllowedError"],
     [event |-> "erase_ok", uid |-> "04A1B2"],
     [event |-> "read_ok", records |-> <<>>],
     [event |-> "lock_ok"],
     [event |-> "tag_info", info |-> [uid |-> "04A1B2"]]}

\* re: which command a reply answers ("current": the last command sent,
\* "stale": an earlier one). The program does not see it.
Aged(msg) == IF msg = None THEN None ELSE [msg EXCEPT !.re = "stale"]

\* _ws_handler up to its loop: the phone opens a connection to the listener
WsOpen(c) ==
    /\ reader_mode = "phone"
    /\ server_alive
    /\ conn[c] = "closed"
    /\ conn' = [conn EXCEPT ![c] = "open"]
    /\ phone_pending' = [phone_pending EXCEPT ![c] = {}]
    /\ _ws_client' = c
    /\ _phone_ready' = FALSE
    /\ UNCHANGED <<otherVars, sessVars, rfidVars, threadVars>>
    /\ UNCHANGED <<_nfc_supported, _loop, _pending_response, _response_event, server_alive>>

\* _ws_handler's loop body on "connected" (nfc: its nfc_supported field, False
\* when absent) and on "nfc_not_supported"
WsAnnounce(c, event, nfc) ==
    /\ reader_mode = "phone"
    /\ conn[c] = "open"
    /\ _nfc_supported' = IF event = "connected" THEN nfc ELSE FALSE
    /\ _phone_ready' = TRUE
    /\ _response_event' = TRUE
    /\ UNCHANGED <<otherVars, sessVars, rfidVars, threadVars>>
    /\ UNCHANGED <<_ws_client, _loop, _pending_response, server_alive, conn, phone_pending>>

\* _ws_handler's loop body on any other event: the phone answers the command
\* k it holds with msg
WsReply(c, k, msg) ==
    /\ reader_mode = "phone"
    /\ conn[c] = "open"
    /\ k \in phone_pending[c]
    /\ phone_pending' = [phone_pending EXCEPT ![c] = @ \ {k}]
    /\ _pending_response' = msg @@ [re |-> k]
    /\ _response_event' = TRUE
    /\ UNCHANGED <<otherVars, sessVars, rfidVars, threadVars>>
    /\ UNCHANGED <<_phone_ready, _nfc_supported, _ws_client, _loop, server_alive, conn>>

\* the connection ends: _ws_handler's finally clause
WsClose(c) ==
    /\ reader_mode = "phone"
    /\ conn[c] = "open"
    /\ conn' = [conn EXCEPT ![c] = "closed"]
    /\ phone_pending' = [phone_pending EXCEPT ![c] = {}]
    /\ _ws_client' = "None"
    /\ _phone_ready' = FALSE
    /\ UNCHANGED <<otherVars, sessVars, rfidVars, threadVars>>
    /\ UNCHANGED <<_nfc_supported, _loop, _pending_response, _response_event, server_alive>>

\* _ws_thread_target ends with an exception of run_until_complete (the port
\* cannot be bound, or the server fails later): the thread and its loop stop,
\* the handlers of the open connections run no further, and nothing of the
\* session is written
WsThreadFault ==
    /\ reader_mode = "phone"
    /\ server_alive
    /\ server_alive' = FALSE
    /\ conn' = [c \in Conns |-> "closed"]
    /\ phone_pending' = [c \in Conns |-> {}]
    /\ UNCHANGED <<otherVars, sessVars, rfidVars, threadVars>>
    /\ UNCHANGED <<_phone_ready, _nfc_supported, _ws_client, _loop, _pending_response,
                   _response_event>>

\* PhoneNFCReader.connect up to "self._connected = True". how: what the ADB
\* steps do (check_adb_available, the number of devices get_adb_devices
\* lists, setup_adb_reverse).
MaxDevices == 2

PhoneConnectHows == [adb : BOOLEAN, devices : 0..MaxDevices, reverse : BOOLEAN]

\* the tests of connect's steps 1 to 3
PhoneSetupPasses(how) == how.adb /\ how.devices # 0 /\ how.reverse

PhoneConnect(t, how) ==
    /\ reader_mode = "phone"
    /\ pc[t] = "nolock"
    /\ call[t] = "connect"
    /\ IF _connected /\ _phone_ready
       THEN /\ Returns(t, [value |-> TRUE])
            /\ UNCHANGED <<_connected, server_alive, _loop, log>>
       ELSE /\ log' = [log EXCEPT ![t] =
                          IF how.adb THEN Append(@, Ev("devices", how.devices)) ELSE @]
            /\ IF ~PhoneSetupPasses(how)
               THEN /\ Returns(t, [value |-> FALSE])
                    /\ UNCHANGED <<_connected, server_alive, _loop>>
               ELSE /\ server_alive' = TRUE
                    /\ _loop' = TRUE
                    /\ _connected' = TRUE
                    /\ pc' = [pc EXCEPT ![t] = "connect_clear"]
                    /\ ret' = ret
    /\ UNCHANGED <<otherVars, reader_mode, _lock, rfidVars>>
    /\ UNCHANGED <<_phone_ready, _nfc_supported, _ws_client, _pending_response,
                   _response_event, conn, phone_pending>>
    /\ UNCHANGED <<call, ndef_data, attempt, resp, result>>

\* connect: self._response_event.clear()
PhoneConnectClear(t) ==
    /\ reader_mode = "phone"
    /\ pc[t] = "connect_clear"
    /\ _response_event' = FALSE
    /\ pc' = [pc EXCEPT ![t] = "connect_wait"]
    /\ UNCHANGED <<otherVars, sessVars, rfidVars>>
    /\ UNCHANGED <<_phone_ready, _nfc_supported, _ws_client, _loop, _pending_response,
                   server_alive, conn, phone_pending>>
    /\ UNCHANGED <<call, ndef_data, attempt, resp, result, ret, log>>

\* connect that reports whether the page announced itself in time
PhoneConnectWaitStrict(t) ==
    /\ reader_mode = "phone"
    /\ pc[t] = "connect_wait"
    /\ Returns(t, [value |-> _response_event])
    /\ UNCHANGED <<otherVars, sessVars, rfidVars, phoneVars>>
    /\ UNCHANGED <<call, ndef_data, attempt, resp, result, log>>

\* connect: self._response_event.wait(timeout=30) ends, set or timed out; both
\* ways connect returns True
PhoneConnectWait(t) ==
    /\ reader_mode = "phone"
    /\ pc[t] = "connect_wait"
    /\ Returns(t, [value |-> TRUE])
    /\ UNCHANGED <<otherVars, sessVars, rfidVars, phoneVars>>
    /\ UNCHANGED <<call, ndef_data, attempt, resp, result, log>>

\* PhoneNFCReader.disconnect
PhoneDisconnect(t) ==
    /\ reader_mode = "phone"
    /\ pc[t] = "nolock"
    /\ call[t] = "disconnect"
    /\ server_alive' = FALSE
    /\ _connected' = FALSE
    /\ _phone_ready' = FALSE
    /\ _ws_client' = "None"
    /\ Returns(t, [value |-> "None"])
    /\ log' = [log EXCEPT ![t] =
                  Append(@, Ev("disconnect", Found(PhoneConnected, _connected \/ server_alive)))]
    /\ UNCHANGED <<otherVars, reader_mode, _lock, rfidVars>>
    /\ UNCHANGED <<_nfc_supported, _loop, _pending_response, _response_event, conn,
                   phone_pending>>
    /\ UNCHANGED <<call, ndef_data, attempt, resp, result>>

\* the head of PhoneNFCReader.write_ndef / erase_tag / read_tag / lock_tag /
\* get_tag_info: the tests, the translation of the image, the tap prompt
PhoneBegin(t) ==
    /\ reader_mode = "phone"
    /\ pc[t] = "locked"
    /\ call[t] \in TagOps
    /\ IF ~PhoneConnected
       THEN /\ Returns(t, [success |-> FALSE, error |-> "Phone not connected"])
            /\ UNCHANGED <<attempt, log>>
       ELSE IF call[t] = "write_ndef" /\ ~_nfc_supported
       THEN /\ Returns(t, [success |-> FALSE, error |-> "Web NFC not supported on phone"])
            /\ UNCHANGED <<attempt, log>>
       ELSE IF call[t] = "write_ndef" /\ Raises(ndef_to_web_nfc(ndef_data[t]))
       THEN \* nothing in write_ndef catches it
            /\ Returns(t, [raised |-> ndef_to_web_nfc(ndef_data[t]).exc])
            /\ UNCHANGED <<attempt, log>>
       ELSE /\ log' = [log EXCEPT ![t] = Append(@, Ev("prompt", ""))]
            /\ IF call[t] = "write_ndef" /\ max_retries < 1
               THEN /\ Returns(t, Exhausted)
                    /\ attempt' = attempt
               ELSE /\ attempt' = [attempt EXCEPT ![t] = 1]
                    /\ pc' = [pc EXCEPT ![t] = "cmd_check"]
                    /\ ret' = ret
    /\ UNCHANGED <<otherVars, sessVars, rfidVars, phoneVars, call, ndef_data, resp, result>>

\* write_ndef that returns on the first error reply
PhoneWriteResponseNoRetry(t, response) ==
    IF response = None THEN Continue(t)
    ELSE IF response.event = "write_ok"
    THEN /\ Returns(t, [success |-> TRUE, uid |-> Get(response, "uid", "Unknown"),
                        attempts |-> attempt[t],
                        verified |-> Get(response, "verified", FALSE)])
         /\ attempt' = attempt
    ELSE IF response.event = "error"
    THEN /\ Returns(t, [success |-> FALSE, error |-> Get(response, "error", "Unknown error")])
         /\ attempt' = attempt
    ELSE Continue(t)

\* what write_ndef does with the value of _send_command
PhoneWriteResponse(t, response) ==
    IF response = None THEN Continue(t)
    ELSE IF response.event = "write_ok"
    THEN /\ Returns(t, [success |-> TRUE, uid |-> Get(response, "uid", "Unknown"),
                        attempts |-> attempt[t],
                        verified |-> Get(response, "verified", FALSE)])
         /\ attempt' = attempt
    ELSE IF response.event = "error" /\ attempt[t] >= max_retries
    THEN /\ Returns(t, [success |-> FALSE, error |-> Get(response, "error", "Unknown error")])
         /\ attempt' = attempt
    ELSE Continue(t)

\* the value erase_tag, read_tag, lock_tag and get_tag_info return for the
\* value of _send_command
PhoneSingleResult(c, response) ==
    LET failure(default) ==
            [success |-> FALSE,
             error |-> IF response = None THEN "No response from phone"
                       ELSE Get(response, "error", default)]
    IN  CASE c = "erase_tag" ->
               IF response # None /\ response.event = "erase_ok"
               THEN [success |-> TRUE, uid |-> Get(response, "uid", "")]
               ELSE failure("Erase failed")
          [] c = "read_tag" ->
               IF response # None /\ response.event = "read_ok"
               THEN [success |-> TRUE, data |-> "", records |-> Get(response, "records", <<>>)]
               ELSE failure("Read failed")
          [] c = "lock_tag" ->
               IF response # None /\ response.event = "lock_ok"
               THEN [success |-> TRUE, uid |-> Get(response, "uid", "")]
               ELSE failure("Lock failed")
          [] OTHER ->
               IF response # None /\ response.event = "tag_info"
               THEN [success |-> TRUE, info |-> Get(response, "info", <<>>)]
               ELSE failure("Info failed")

\* _send_command returns response to the operation that called it
CommandReturns(t, response) ==
    /\ result' = [result EXCEPT ![t] = response]
    /\ IF call[t] = "write_ndef"
       THEN PhoneWriteResponse(t, response)
       ELSE /\ Returns(t, PhoneSingleResult(call[t], response))
            /\ attempt' = attempt

\* _send_command: the test of _ws_client and _loop, then
\* self._response_event.clear()
SendCommandClear(t) ==
    /\ reader_mode = "phone"
    /\ pc[t] = "cmd_check"
    /\ IF _ws_client = "None" \/ ~_loop
       THEN /\ CommandReturns(t, None)
            /\ UNCHANGED _response_event
       ELSE /\ _response_event' = FALSE
            /\ pc' = [pc EXCEPT ![t] = "cmd_reset"]
            /\ result' = [result EXCEPT ![t] = NoResp]
            /\ UNCHANGED <<attempt, ret>>
    /\ UNCHANGED <<otherVars, sessVars, rfidVars, call, ndef_data, resp, log>>
    /\ UNCHANGED <<_phone_ready, _nfc_supported, _ws_client, _loop, _pending_response,
                   server_alive, conn, phone_pending>>

\* _send_command: self._pending_response = None
SendCommandReset(t) ==
    /\ reader_mode = "phone"
    /\ pc[t] = "cmd_reset"
    /\ _pending_response' = None
    /\ pc' = [pc EXCEPT ![t] = "cmd_send"]
    /\ UNCHANGED <<otherVars, sessVars, rfidVars, call, ndef_data, attempt, resp, result, ret, log>>
    /\ UNCHANGED <<_phone_ready, _nfc_supported, _ws_client, _loop, _response_event,
                   server_alive, conn, phone_pending>>

\* _send_command: the send through the listener's loop. It reaches the phone
\* when the connection is open and the loop runs (and delivers); otherwise the
\* exception is caught and None is returned.
SendCommandSend(t, delivered) ==
    /\ reader_mode = "phone"
    /\ pc[t] = "cmd_send"
    /\ IF delivered /\ _ws_client # "None" /\ server_alive /\ conn[_ws_client] = "open"
       THEN /\ phone_pending' =
                  [c \in Conns |->
                      (IF phone_pending[c] = {} THEN {} ELSE {"stale"})
                      \cup (IF c = _ws_client THEN {"current"} ELSE {})]
            /\ _pending_response' = Aged(_pending_response)
            /\ log' = [log EXCEPT ![t] = Append(@, Ev("send", call[t]))]
            /\ pc' = [pc EXCEPT ![t] = "cmd_wait"]
            /\ UNCHANGED <<attempt, result, ret>>
       ELSE /\ CommandReturns(t, None)
            /\ UNCHANGED <<phone_pending, _pending_response, log>>
    /\ UNCHANGED <<otherVars, sessVars, rfidVars, call, ndef_data, resp>>
    /\ UNCHANGED <<_phone_ready, _nfc_supported, _ws_client, _loop, _response_event,
                   server_alive, conn>>

\* _send_command: self._response_event.wait(timeout) ends: set, and
\* _pending_response is returned, or timed out, and None is returned
SendCommandWait(t) ==
    /\ reader_mode = "phone"
    /\ pc[t] = "cmd_wait"
    /\ CommandReturns(t, IF _response_event THEN _pending_response ELSE None)
    /\ UNCHANGED <<otherVars, sessVars, rfidVars, phoneVars, call, ndef_data, resp, log>>

PhoneNext ==
    \/ \E c \in OneConn : WsOpen(c)
    \/ \E c \in OneConn, event \in {"connected", "nfc_not_supported"}, nfc \in BOOLEAN :
          WsAnnounce(c, event, nfc)
    \/ \E c \in OneConn, k \in {"current", "stale"}, msg \in PhoneReplies : WsReply(c, k, msg)
    \/ \E c \in OneConn : WsClose(c)
    \/ WsThreadFault
    \/ \E t \in Threads :
          \/ \E how \in PhoneConnectHows : PhoneConnect(t, how)
          \/ PhoneConnectClear(t)
          \/ PhoneConnectWait(t)
          \/ PhoneDisconnect(t)
          \/ PhoneBegin(t)
          \/ SendCommandClear(t)
          \/ SendCommandReset(t)
          \/ \E delivered \in BOOLEAN : SendCommandSend(t, delivered)
          \/ SendCommandWait(t)

\* t1 is the program's main thread and calls every public method; t2 is a
\* second thread that erases tags on the same session
Callable(t) == IF t = "t1" THEN PublicOps ELSE {"erase_tag"}

Next ==
    \/ \E t \in Threads : Call(t)
    \/ \E t \in Threads, c \in PublicOps : c \in Callable(t) /\ CallUnlocked(t, c)
    \/ \E t \in Threads, c \in PublicOps :
          \E image \in (IF c = "write_ndef" THEN Images ELSE {<<>>}) :
             c \in Callable(t) /\ Acquire(t, c, image)
    \/ \E t \in Threads : Return(t)
    \/ RfidNext
    \/ PhoneNext

Spec == Init /\ [][Next]_vars

\* --------------------------------- a silent peer on a sound channel

\* what thread t does once it is inside a public method, when no send raises,
\* the device sends no line and the page answers no command
Running(t) ==
    \/ \E how \in ConnectHows : RfidConnect(t, how)
    \/ RfidDisconnect(t)
    \/ RfidBegin(t)
    \/ RfidSend(t, FALSE)
    \/ RfidWaitTimeout(t)
    \/ \E how \in PhoneConnectHows : PhoneConnect(t, how)
    \/ PhoneConnectClear(t)
    \/ PhoneConnectWait(t)
    \/ PhoneDisconnect(t)
    \/ PhoneBegin(t)
    \/ SendCommandClear(t)
    \/ SendCommandReset(t)
    \/ \E delivered \in BOOLEAN : SendCommandSend(t, delivered)
    \/ SendCommandWait(t)

NextSilent ==
    \/ \E t \in Threads : Call(t)
    \/ \E t \in Threads, c \in PublicOps : c \in Callable(t) /\ CallUnlocked(t, c)
    \/ \E t \in Threads, c \in PublicOps :
          \E image \in (IF c = "write_ndef" THEN Images ELSE {<<>>}) :
             c \in Callable(t) /\ Acquire(t, c, image)
    \/ \E t \in Threads : Return(t)
    \/ \E t \in Threads : Running(t)
    \/ \E c \in OneConn : WsOpen(c)
    \/ \E c \in OneConn, event \in {"connected", "nfc_not_supported"}, nfc \in BOOLEAN :
          WsAnnounce(c, event, nfc)
    \/ \E c \in OneConn : WsClose(c)

\* a thread inside a method keeps running: every sleep and wait of the code
\* has a time limit
SpecSilent ==
    /\ Init
    /\ [][NextSilent]_vars
    /\ \A t \in Threads : WF_vars(Running(t))

\* ------------------------------------------------ the decoder on its own

\* the images given to get_ndef_payload_info: a container head (short form,
\* long form, or a first byte that is not 0x03), a record header (0xD1: short
\* record of TNF 1, 0xD2: short record of TNF 2, 0xC1: long record of TNF 1),
\* a type length, and up to MaxTail bytes after it
MaxTail == 4
TailBytes == {1, 2, 84, 85, 128}
Tlvs == {<<3, 0>>, <<3, 10>>, <<3, 255, 0, 3>>, <<0, 3>>}
Flags == {209, 210, 193}
TypeLens == {0, 1}
Tails == UNION {[1..n -> TailBytes] : n \in 0..MaxTail}

\* MIME records (TNF 2) of type text/vcard, application/vnd.wfa.wsc and a/b,
\* with the payloads "", "a", e acute in UTF-8, and the byte 0x80
MimeTypes ==
    {<<116, 101, 120, 116, 47, 118, 99, 97, 114, 100>>,
     <<97, 112, 112, 108, 105, 99, 97, 116, 105, 111, 110, 47, 118, 110, 100, 46, 119, 102,
       97, 46, 119, 115, 99>>,
     <<97, 47, 98>>}
MimePayloads == {<<>>, <<97>>, <<195, 169>>, <<128>>, <<97, 128>>}
MimeImages ==
    {wrap_tlv(make_ndef_record(2, type, payload)).value :
        type \in MimeTypes, payload \in MimePayloads}

CodecImages ==
    {tlv \o <<f, tl>> \o tail : tlv \in Tlvs, f \in Flags, tl \in TypeLens, tail \in Tails}
    \cup {<<tlv[1], tlv[2], f>> : tlv \in Tlvs, f \in Flags}
    \cup MimeImages

InitDecoder ==
    /\ reader_mode = "arduino"
    /\ InitSession
    /\ InitThreads
    /\ InitCli
    /\ InitEnc
    /\ InitBulk
    /\ InitConfig
    /\ ndef_image \in CodecImages
    /\ decoded = NotDecoded

\* a caller runs get_ndef_payload_info on the image
Decode ==
    /\ decoded = NotDecoded
    /\ decoded' = get_ndef_payload_info(ndef_image)
    /\ UNCHANGED <<ndef_image, cliVars, encVars, extraVars, sessVars, rfidVars, phoneVars, threadVars>>

NextCodec == Decode

SpecCodec == InitDecoder /\ [][NextCodec]_vars

\* ------------------------------------------------ the encoders on their own

\* the texts given to the encoders: every string of up to MaxText code points
\* of TextAlphabet ("a", "A", " ", "@", e acute), and runs of "a" of the
\* lengths at which the record or the payload of some encoder is 254, 255 or
\* 256 bytes long
MaxText == 2
TextAlphabet == {97, 65, 32, 64, 233}
ShortTexts == UNION {[1..n -> TextAlphabet] : n \in 0..MaxText}
Run(c, n) == [i \in 1..n |-> c]
LongTexts ==
    {Run(97, n) : n \in {184, 185, 186, 193, 194, 195, 198, 199, 220, 221} \cup 247..255}

\* URLs: a table prefix as it is or in upper case, no prefix, or a scheme that
\* is not in the table ("x:"), then a suffix, with or without a leading blank
UrlInputs ==
    {lead \o p \o suffix :
        lead \in {<<>>, <<32>>},
        p \in {URI_PREFIXES[i].prefix : i \in DOMAIN URI_PREFIXES}
              \cup {Upper(URI_PREFIXES[i].prefix) : i \in DOMAIN URI_PREFIXES}
              \cup {<<>>, <<120, 58>>},
        suffix \in ShortTexts \cup {<<119, 119, 119, 46, 97>>, <<87, 87, 87, 46, 97>>}}
    \cup LongTexts

\* language codes: "en", "", "fr-CA", e acute, and 63 and 64 letters
Langs == {<<101, 110>>, <<>>, <<102, 114, 45, 67, 65>>, <<233>>, Run(97, 63), Run(97, 64)}

\* names of contacts: the short texts, "a a" and "a  A a"
Names == ShortTexts \cup {<<97, 32, 97>>, <<97, 32, 32, 65, 32, 97>>}
Optional == {<<>>, <<97>>, <<32>>}

\* platforms: those of the table as they are, in upper case and between
\* blanks, "", and one that is not in the table
Platforms ==
    {SOCIAL_PLATFORMS[i].name : i \in DOMAIN SOCIAL_PLATFORMS}
    \cup {Upper(SOCIAL_PLATFORMS[i].name) : i \in DOMAIN SOCIAL_PLATFORMS}
    \cup {<<32>> \o SOCIAL_PLATFORMS[i].name \o <<32>> : i \in DOMAIN SOCIAL_PLATFORMS}
    \cup {<<>>, <<109, 121, 115, 112, 97, 99, 101>>}

\* auth types: those of auth_map, "open", "wpa", "WEP" and ""
AuthTypes == {STR_OPEN, STR_WPA, STR_WPA2, STR_WPA2_EAP, <<111, 112, 101, 110>>, <<119, 112, 97>>, <<87, 69, 80>>, <<>>}

EncodeCalls ==
    {[op |-> "encode_url", url |-> u] : u \in UrlInputs}
    \cup {[op |-> "encode_text", text |-> t, lang |-> l] : t \in ShortTexts, l \in Langs}
    \cup {[op |-> "encode_text", text |-> t, lang |-> <<101, 110>>] : t \in LongTexts}
    \cup {[op |-> "encode_vcard", name |-> n, phone |-> ph, email |-> e, org |-> o,
           title |-> <<>>, url |-> <<>>, address |-> a, note |-> <<>>] :
             n \in Names, ph \in Optional, e \in {<<>>, <<97, 64, 97>>}, o \in {<<>>, <<97>>},
             a \in Optional}
    \cup {[op |-> "encode_vcard", name |-> <<97>>, phone |-> <<>>, email |-> <<>>,
           org |-> <<>>, title |-> ti, url |-> u, address |-> <<>>, note |-> no] :
             ti \in Optional, u \in Optional, no \in Optional}
    \cup {[op |-> "encode_vcard", name |-> <<97>>, phone |-> <<>>, email |-> <<>>,
           org |-> <<>>, title |-> <<>>, url |-> <<>>, address |-> <<>>, note |-> no] :
             no \in LongTexts}
    \cup {[op |-> "encode_phone", phone |-> ph] :
             ph \in ShortTexts \cup LongTexts \cup {<<43, 49, 32, 50, 51, 45, 52>>}}
    \cup {[op |-> "encode_email", email |-> e, subject |-> su, body |-> b] :
             e \in ShortTexts \cup {<<97, 64, 97>>}, su \in Optional, b \in Optional}
    \cup {[op |-> "encode_email", email |-> e, subject |-> <<>>, body |-> <<>>] :
             e \in LongTexts}
    \cup {[op |-> "encode_social", platform |-> pl, username |-> u] :
             pl \in Platforms, u \in ShortTexts \cup {<<32, 64, 64, 97>>}}
    \cup {[op |-> "encode_wifi", ssid |-> ss, password |-> pw, auth_type |-> au] :
             ss \in ShortTexts, pw \in {<<>>, <<97>>}, au \in AuthTypes}
    \cup {[op |-> "encode_wifi", ssid |-> ss, password |-> <<>>, auth_type |-> STR_WPA2] :
             ss \in LongTexts}

InitEncoder ==
    /\ reader_mode = "arduino"
    /\ InitSession
    /\ InitThreads
    /\ InitCli
    /\ InitCodec
    /\ InitBulk
    /\ InitConfig
    /\ encode_call \in EncodeCalls
    /\ encoded = NotEncoded

\* a caller runs the encoder; the image, when there is one, is what
\* get_ndef_payload_info is given next
Encode ==
    /\ encoded = NotEncoded
    /\ encoded' = Apply(encode_call)
    /\ ndef_image' = IF Raises(encoded') THEN ndef_image ELSE encoded'.value
    /\ UNCHANGED <<encode_call, decoded, cliVars, extraVars, sessVars, rfidVars, phoneVars, threadVars>>

\* the caller reads the image back
DecodeEncoded ==
    /\ encoded.kind = "bytes"
    /\ Decode

NextEncode == Encode \/ DecodeEncoded

SpecEncode == InitEncoder /\ [][NextEncode]_vars

\* ------------------------------------------- the write orchestrator

\* cli.py runs on the main thread, on a reader that connect_reader has
\* connected
Main == "t1"

\* how many times do_write may call itself
MaxRewrites == 2

InitOrchestrator ==
    /\ reader_mode = "arduino"
    /\ _lock = NoThread
    /\ _connected = TRUE
    /\ _serial = "open"
    /\ owed = {}
    /\ _phone_ready = FALSE
    /\ _nfc_supported = FALSE
    /\ _ws_client = "None"
    /\ _loop = FALSE
    /\ _pending_response = None
    /\ _response_event = FALSE
    /\ server_alive = FALSE
    /\ conn = [c \in Conns |-> "closed"]
    /\ phone_pending = [c \in Conns |-> {}]
    /\ InitThreads
    /\ InitCodec
    /\ InitCli
    /\ InitEnc
    /\ InitBulk
    /\ InitConfigConnected

\* do_write from its entry to the call of reader.write_ndef. proceed: the
\* answer to "Proceed with write?".
DoWrite(proceed) ==
    /\ cli_pc = "menu"
    /\ IF proceed
       THEN /\ Calls(Main)
            /\ cli_pc' = "write_ndef"
            /\ cli_log' = Append(Append(cli_log, Ev("proceed", TRUE)), Ev("write_ndef", ""))
       ELSE /\ cli_pc' = "returned"
            /\ cli_log' = Append(cli_log, Ev("proceed", FALSE))
            /\ UNCHANGED threadVars
    /\ UNCHANGED <<depth, cli_result, erase_result, codecVars, encVars, extraVars, sessVars, rfidVars, phoneVars>>

\* the main thread enters the with block of the method do_write called
DoWriteAcquire ==
    /\ cli_pc \in {"write_ndef", "erase_tag"}
    /\ Acquire(Main, cli_pc, IF cli_pc = "write_ndef" THEN IMG_URL ELSE <<>>)

\* how do_write reads an outcome
Outcome(r) ==
    IF "raised" \in DOMAIN r THEN "raised"
    ELSE IF Get(r, "success", FALSE) THEN "success"
    ELSE IF Get(r, "duplicate", FALSE) THEN "duplicate"
    ELSE "failure"

\* do_write from the return of reader.write_ndef to the overwrite question
DoWriteResult ==
    /\ cli_pc = "write_ndef"
    /\ pc[Main] = "done"
    /\ Returned(Main)
    /\ cli_result' = ret[Main]
    /\ cli_log' = Append(cli_log, Ev("result", Outcome(ret[Main])))
    /\ cli_pc' = CASE Outcome(ret[Main]) = "raised" -> "raised"
                   [] Outcome(ret[Main]) = "duplicate" -> "overwrite"
                   [] OTHER -> "returned"
    /\ UNCHANGED <<depth, erase_result, codecVars, encVars, extraVars>>

\* DoWriteOverwrite that erases whatever the answer is
DoWriteOverwriteAlways(answer) ==
    /\ cli_pc = "overwrite"
    /\ Calls(Main)
    /\ cli_pc' = "erase_tag"
    /\ cli_log' = Append(Append(cli_log, Ev("overwrite", answer)), Ev("erase_tag", ""))
    /\ UNCHANGED <<depth, cli_result, erase_result, codecVars, encVars, extraVars, sessVars, rfidVars, phoneVars>>

\* do_write: the answer to "Tag has existing data. Overwrite?" and, when it
\* is yes, the call of reader.erase_tag
DoWriteOverwrite(answer) ==
    /\ cli_pc = "overwrite"
    /\ IF answer
       THEN /\ Calls(Main)
            /\ cli_pc' = "erase_tag"
            /\ cli_log' = Append(Append(cli_log, Ev("overwrite", TRUE)), Ev("erase_tag", ""))
       ELSE /\ cli_pc' = "returned"
            /\ cli_log' = Append(cli_log, Ev("overwrite", FALSE))
            /\ UNCHANGED threadVars
    /\ UNCHANGED <<depth, cli_result, erase_result, codecVars, encVars, extraVars, sessVars, rfidVars, phoneVars>>

\* do_write from the return of reader.erase_tag: on success it calls itself
\* with the same arguments
DoWriteErased ==
    /\ cli_pc = "erase_tag"
    /\ pc[Main] = "done"
    /\ Outcome(ret[Main]) = "success" => depth < MaxRewrites
    /\ Returned(Main)
    /\ erase_result' = ret[Main]
    /\ IF Outcome(ret[Main]) = "raised"
       THEN /\ cli_pc' = "raised"
            /\ cli_log' = Append(cli_log, Ev("erased", "raised"))
            /\ depth' = depth
       ELSE IF Outcome(ret[Main]) = "success"
       THEN /\ cli_pc' = "menu"
            /\ cli_log' = Append(Append(cli_log, Ev("erased", "success")), Ev("do_write", ""))
            /\ depth' = depth + 1
       ELSE /\ cli_pc' = "returned"
            /\ cli_log' = Append(cli_log, Ev("erased", "failure"))
            /\ depth' = depth
    /\ UNCHANGED <<cli_result, codecVars, encVars, extraVars>>

NextCli ==
    \/ \E proceed \in BOOLEAN : DoWrite(proceed)
    \/ DoWriteAcquire
    \/ RfidBegin(Main)
    \/ \E fault \in BOOLEAN : RfidSend(Main, fault)
    \/ \E line \in Lines : RfidReadLine(Main, line)
    \/ RfidWaitTimeout(Main)
    \/ DoWriteResult
    \/ \E answer \in BOOLEAN : DoWriteOverwrite(answer)
    \/ DoWriteErased

SpecCli == InitOrchestrator /\ [][NextCli]_vars

\* --------------------------------------------------- the bulk writer

\* how many cards one bulk session is given
MaxCards == 2

\* handle_bulk_write on a connected reader, the data entered and the start
\* confirmed
InitBulkWriter ==
    /\ reader_mode = "arduino"
    /\ _lock = NoThread
    /\ _connected = TRUE
    /\ _serial = "open"
    /\ owed = {}
    /\ _phone_ready = FALSE
    /\ _nfc_supported = FALSE
    /\ _ws_client = "None"
    /\ _loop = FALSE
    /\ _pending_response = None
    /\ _response_event = FALSE
    /\ server_alive = FALSE
    /\ conn = [c \in Conns |-> "closed"]
    /\ phone_pending = [c \in Conns |-> {}]
    /\ InitThreads
    /\ InitCodec
    /\ InitCli
    /\ InitEnc
    /\ InitBulk
    /\ InitConfigConnected

\* db.start_bulk_session (a new row, its totals 0), written = 0, failed = 0
BulkStart ==
    /\ bulk_pc = "menu"
    /\ bulk_pc' = "loop"
    /\ written' = 0
    /\ failed' = 0
    /\ total_written' = 0
    /\ total_failed' = 0
    /\ ended_at' = FALSE
    /\ UNCHANGED <<codecVars, cliVars, encVars, cfgVars, sessVars, rfidVars, phoneVars, threadVars>>

\* the head of the loop body: the card's line is printed and
\* reader.write_ndef is called
BulkWrite ==
    /\ bulk_pc = "loop"
    /\ written + failed < MaxCards
    /\ Calls(Main)
    /\ bulk_pc' = "write_ndef"
    /\ UNCHANGED <<written, failed, total_written, total_failed, ended_at>>
    /\ UNCHANGED <<codecVars, cliVars, encVars, cfgVars, sessVars, rfidVars, phoneVars>>

\* the main thread enters write_ndef's with block
BulkAcquire ==
    /\ bulk_pc = "write_ndef"
    /\ Acquire(Main, "write_ndef", IMG_URL)

\* reader.write_ndef returns: written += 1 or failed += 1 (an exception other
\* than KeyboardInterrupt leaves handle_bulk_write)
BulkResult ==
    /\ bulk_pc = "write_ndef"
    /\ pc[Main] = "done"
    /\ Returned(Main)
    /\ IF "raised" \in DOMAIN ret[Main]
       THEN bulk_pc' = "raised" /\ UNCHANGED <<written, failed>>
       ELSE IF Get(ret[Main], "success", FALSE)
       THEN bulk_pc' = "written" /\ written' = written + 1 /\ failed' = failed
       ELSE bulk_pc' = "failed" /\ failed' = failed + 1 /\ written' = written
    /\ UNCHANGED <<total_written, total_failed, ended_at, codecVars, cliVars, encVars, cfgVars>>

\* show_success, db.log_write and db.update_bulk_session(session_id,
\* written=1), or show_error and db.update_bulk_session(session_id, failed=1)
BulkRecord ==
    /\ bulk_pc \in {"written", "failed"}
    /\ total_written' = IF bulk_pc = "written" THEN total_written + 1 ELSE total_written
    /\ total_failed' = IF bulk_pc = "failed" THEN total_failed + 1 ELSE total_failed
    /\ bulk_pc' = "sleep"
    /\ UNCHANGED <<written, failed, ended_at>>
    /\ UNCHANGED <<codecVars, cliVars, encVars, cfgVars, sessVars, rfidVars, phoneVars, threadVars>>

\* time.sleep(0.5) ends
BulkSleep ==
    /\ bulk_pc = "sleep"
    /\ bulk_pc' = "loop"
    /\ UNCHANGED <<written, failed, total_written, total_failed, ended_at>>
    /\ UNCHANGED <<codecVars, cliVars, encVars, cfgVars, sessVars, rfidVars, phoneVars, threadVars>>

\* where the loop is when the operator presses Ctrl+C
InLoop == {"loop", "write_ndef", "written", "failed", "sleep"}

\* KeyboardInterrupt, raised in the main thread wherever it is inside the
\* try: it leaves write_ndef through its with block, which releases the lock,
\* and reaches "except KeyboardInterrupt"
BulkInterrupt ==
    /\ bulk_pc \in InLoop
    /\ bulk_pc' = "interrupted"
    /\ _lock' = IF _lock = Main THEN NoThread ELSE _lock
    /\ pc' = [pc EXCEPT ![Main] = "idle"]
    /\ call' = [call EXCEPT ![Main] = ""]
    /\ ndef_data' = [ndef_data EXCEPT ![Main] = <<>>]
    /\ attempt' = [attempt EXCEPT ![Main] = 0]
    /\ resp' = [resp EXCEPT ![Main] = NoResp]
    /\ result' = [result EXCEPT ![Main] = NoResp]
    /\ ret' = [ret EXCEPT ![Main] = NoReturn]
    /\ log' = [log EXCEPT ![Main] = <<>>]
    /\ UNCHANGED <<written, failed, total_written, total_failed, ended_at>>
    /\ UNCHANGED <<codecVars, cliVars, encVars, cfgVars, reader_mode, _connected, rfidVars, phoneVars>>

\* db.end_bulk_session(session_id) and the summary panel, which shows
\* written and failed
BulkEnd ==
    /\ bulk_pc = "interrupted"
    /\ ended_at' = TRUE
    /\ bulk_pc' = "summary"
    /\ UNCHANGED <<written, failed, total_written, total_failed>>
    /\ UNCHANGED <<codecVars, cliVars, encVars, cfgVars, sessVars, rfidVars, phoneVars, threadVars>>

NextBulk ==
    \/ BulkStart
    \/ BulkWrite
    \/ BulkAcquire
    \/ RfidBegin(Main)
    \/ \E fault \in BOOLEAN : RfidSend(Main, fault)
    \/ \E line \in Lines : RfidReadLine(Main, line)
    \/ RfidWaitTimeout(Main)
    \/ BulkResult
    \/ BulkRecord
    \/ BulkSleep
    \/ BulkInterrupt
    \/ BulkEnd

SpecBulk == InitBulkWriter /\ [][NextBulk]_vars

\* ------------------------------------------------------- the settings

\* what config.json may hold: the port, the retry budget, the verify policy
Ports == {"auto", "COM4"}
Budgets == {0, 2}
Configs == [port : Ports, verify_after_write : BOOLEAN, max_retries : Budgets]

\* connect_reader has built an RFIDReader on the configuration it loaded
InitSettings ==
    /\ reader_mode = "arduino"
    /\ InitSession
    /\ InitThreads
    /\ InitCodec
    /\ InitCli
    /\ InitEnc
    /\ InitBulk
    /\ config \in Configs
    /\ Construct(config)

\* handle_settings, "Change serial port?": the port is saved, set on the
\* reader, and reader.reconnect() is called
SettingsPort(p) ==
    /\ reader_mode = "arduino"
    /\ pc[Main] = "idle"
    /\ config' = [config EXCEPT !.port = p]
    /\ port' = p
    /\ call' = [call EXCEPT ![Main] = "reconnect"]
    /\ pc' = [pc EXCEPT ![Main] = "reconnect"]
    /\ UNCHANGED <<max_retries, verify_after_write, ndef_data, attempt, resp, result, ret, log>>
    /\ UNCHANGED <<codecVars, cliVars, encVars, bulkVars, sessVars, rfidVars, phoneVars>>

\* handle_settings, "Change other settings?": both are saved
SettingsOther(verify, retries) ==
    /\ pc[Main] = "idle"
    /\ config' = [config EXCEPT !.verify_after_write = verify, !.max_retries = retries]
    /\ UNCHANGED <<port, max_retries, verify_after_write>>
    /\ UNCHANGED <<codecVars, cliVars, encVars, bulkVars, sessVars, rfidVars, phoneVars, threadVars>>

\* the program is started again: connect_reader builds a new RFIDReader on
\* the configuration it loads
NewSession ==
    /\ pc[Main] = "idle"
    /\ _lock' = NoThread
    /\ _connected' = FALSE
    /\ _serial' = "None"
    /\ owed' = {}
    /\ port' = config.port
    /\ max_retries' = config.max_retries
    /\ verify_after_write' = config.verify_after_write
    /\ UNCHANGED <<config, reader_mode, phoneVars, threadVars>>
    /\ UNCHANGED <<codecVars, cliVars, encVars, bulkVars>>

NextSettings ==
    \/ Call(Main)
    \/ \E c \in PublicOps \cup {"reconnect"} :
          \E image \in (IF c = "write_ndef" THEN {IMG_URL} ELSE {<<>>}) :
             Acquire(Main, c, image)
    \/ Return(Main)
    \/ \E how \in ConnectHows : RfidConnect(Main, how)
    \/ RfidDisconnect(Main)
    \/ RfidBegin(Main)
    \/ \E fault \in BOOLEAN : RfidSend(Main, fault)
    \/ \E line \in Lines : RfidReadLine(Main, line)
    \/ RfidWaitTimeout(Main)
    \/ \E p \in Ports : SettingsPort(p)
    \/ \E verify \in BOOLEAN, retries \in Budgets : SettingsOther(verify, retries)
    \/ NewSession

SpecSettings == InitSettings /\ [][NextSettings]_vars

\* ------------------------------------------- a phone that reconnects

\* PhoneNFCReader.connect has returned: the listener runs, no connection yet
InitPeers ==
    /\ reader_mode = "phone"
    /\ _lock = NoThread
    /\ _connected = TRUE
    /\ _serial = "None"
    /\ owed = {}
    /\ _phone_ready = FALSE
    /\ _nfc_supported = FALSE
    /\ _ws_client = "None"
    /\ _loop = TRUE
    /\ _pending_response = None
    /\ _response_event = FALSE
    /\ server_alive = TRUE
    /\ conn = [c \in Conns |-> "closed"]
    /\ phone_pending = [c \in Conns |-> {}]
    /\ InitThreads
    /\ InitCodec
    /\ InitCli
    /\ InitEnc
    /\ InitBulk
    /\ InitConfig

\* the phone opens and closes connections in any order, a new one also
\* while the old one is open; the main thread erases tags
NextPeers ==
    \/ \E c \in Conns : WsOpen(c)
    \/ \E c \in Conns, event \in {"connected", "nfc_not_supported"}, nfc \in BOOLEAN :
          WsAnnounce(c, event, nfc)
    \/ \E c \in Conns, k \in {"current", "stale"}, msg \in PhoneReplies : WsReply(c, k, msg)
    \/ \E c \in Conns : WsClose(c)
    \/ Call(Main)
    \/ Acquire(Main, "erase_tag", <<>>)
    \/ Return(Main)
    \/ PhoneBegin(Main)
    \/ SendCommandClear(Main)
    \/ SendCommandReset(Main)
    \/ \E delivered \in BOOLEAN : SendCommandSend(Main, delivered)
    \/ SendCommandWait(Main)

SpecPeers == InitPeers /\ [][NextPeers]_vars

\* ------------------------------------------------------- late lines

\* which of the two waits of a command a line of the device belongs to
KindOf(line) == IF line.status = RESP_TAP_CARD THEN "tap" ELSE "result"

\* what the device has still to deliver once a wait of command c is over
\* with the dict r: after a tap wait that timed out, the TAP_CARD and the
\* terminal line; after a result wait that timed out, the terminal line;
\* after WRITE_OK, the VERIFY line that follows it
OwedAfter(position, r) ==
    IF r.status = TIMEOUT
    THEN IF position = "tap_wait" THEN {"tap", "result"} ELSE {"result"}
    ELSE IF r.status = RESP_WRITE_OK THEN {"result"}
    ELSE {}

\* a session that is connected, with nothing owed
InitLate ==
    /\ InitBulkWriter

\* _wait_for_response reads a line of the device. late: the line answers a
\* command whose wait is over (the program has no way of telling)
LateReadLine(t, line, late) ==
    /\ reader_mode = "arduino"
    /\ pc[t] \in {"tap_wait", "result_wait"}
    /\ late => KindOf(line) \in owed
    /\ LET expected == IF pc[t] = "tap_wait" THEN TapExpected ELSE ResultExpected(call[t])
           r == WaitForResponse(expected, line)
           rest == IF late THEN owed \ {KindOf(line)} ELSE owed
       IN  IF r = NoResp
           THEN /\ owed' = rest
                /\ UNCHANGED <<pc, attempt, resp, result, ret, log>>
           ELSE /\ owed' = rest \cup (IF late THEN {} ELSE OwedAfter(pc[t], r))
                /\ WaitEnds(t, r)
    /\ UNCHANGED <<otherVars, sessVars, _serial, phoneVars, call, ndef_data>>

\* _wait_for_response runs out of time; the device may answer afterwards
LateWaitTimeout(t) ==
    /\ reader_mode = "arduino"
    /\ pc[t] \in {"tap_wait", "result_wait"}
    /\ owed' = owed \cup OwedAfter(pc[t], WaitTimedOut)
    /\ WaitEnds(t, WaitTimedOut)
    /\ UNCHANGED <<otherVars, sessVars, _serial, phoneVars, call, ndef_data>>

NextLate ==
    \/ Call(Main)
    \/ \E c \in TagOps :
          \E image \in (IF c = "write_ndef" THEN {IMG_URL} ELSE {<<>>}) :
             Acquire(Main, c, image)
    \/ Return(Main)
    \/ RfidBegin(Main)
    \/ \E fault \in BOOLEAN : RfidSend(Main, fault)
    \/ \E line \in Lines, late \in BOOLEAN : LateReadLine(Main, line, late)
    \/ LateWaitTimeout(Main)

SpecLate == InitLate /\ [][NextLate]_vars

\* ------------------------------------------------------------ properties

Last(l) == l[Len(l)]

\* the WRITE_RAW commands a call has sent
Sends(l) == Cardinality({i \in 1..Len(l) : l[i] = Ev("send", CMD_WRITE_RAW)})

SerialWrite(t) == reader_mode = "arduino" /\ call[t] = "write_ndef"

\* one attempt answered with TAP_CARD and then WRITE_FAIL
FailRound == <<Ev("send", CMD_WRITE_RAW), Ev("wait", RESP_TAP_CARD), Ev("prompt", ""),
               Ev("wait", RESP_WRITE_FAIL)>>

RECURSIVE FailRounds(_)
FailRounds(n) == IF n = 0 THEN <<>> ELSE FailRound \o FailRounds(n - 1)

IsPrefix(l, m) == Len(l) <= Len(m) /\ SubSeq(m, 1, Len(l)) = l

\* every answer of the device so far was TAP_CARD, then WRITE_FAIL
AlwaysFails(l) == l # <<>> /\ IsPrefix(l, FailRounds(max_retries + 1))

\* C1: a Serial write_ndef whose device answers every WRITE_RAW with TAP_CARD
\* and then WRITE_FAIL sends at most max_retries commands, and is over, with
\* the attempts-exhausted failure, exactly when the max_retries-th WRITE_FAIL
\* has been read.
C1_RetryTermination ==
    \A t \in Threads :
        SerialWrite(t) /\ AlwaysFails(log[t]) =>
            /\ Sends(log[t]) <= max_retries
            /\ Len(log[t]) <= Len(FailRounds(max_retries))
            /\ (pc[t] = "done") = (log[t] = FailRounds(max_retries))
            /\ pc[t] = "done" => ret[t] = Exhausted

C1_Witness ==
    \E t \in Threads :
        /\ SerialWrite(t)
        /\ log[t] = FailRounds(max_retries)
        /\ pc[t] = "done"
        /\ ret[t] = Exhausted

\* C2 (as claimed): a write_ndef that met a fault of the channel never waits
\* for the session lock while it holds that lock itself.
C2_NoSelfDeadlock ==
    \A t \in Threads :
        pc[t] \in {"reconnect", "reconnect_connect"} => _lock # t

\* the tap wait of the current attempt ended with status
TapWaitEnded(l, status) ==
    /\ Len(l) >= 2
    /\ Last(l) = Ev("wait", status)
    /\ l[Len(l) - 1] = Ev("send", CMD_WRITE_RAW)

\* the result wait of the current attempt ended with status
ResultWaitEnded(l, status) ==
    /\ Len(l) >= 2
    /\ Last(l) = Ev("wait", status)
    /\ l[Len(l) - 1] = Ev("prompt", "")

\* what follows an attempt that is retried: the next attempt while fewer than
\* max_retries were made, the attempts-exhausted failure after that
Retried(t) ==
    IF Sends(log[t]) < max_retries
    THEN pc[t] = "send" /\ attempt[t] = Sends(log[t]) + 1
    ELSE pc[t] = "done" /\ ret[t] = Exhausted

\* C3 (as claimed): in Serial write_ndef an ERROR of the tap wait, an ERROR of
\* the result wait and a timeout of either wait are each retried while
\* attempts remain.
C3_EveryFailureRetried ==
    \A t \in Threads :
        SerialWrite(t) =>
            /\ TapWaitEnded(log[t], RESP_ERROR) => Retried(t)
            /\ TapWaitEnded(log[t], TIMEOUT) => Retried(t)
            /\ ResultWaitEnded(log[t], RESP_ERROR) => Retried(t)
            /\ ResultWaitEnded(log[t], TIMEOUT) => Retried(t)

\* C3 (amended): in Serial write_ndef an ERROR of the result wait and a timeout
\* of either wait are retried while attempts remain; an ERROR of the tap wait
\* ends the call at once with the failure that carries the ERROR's data.
C3_RetriedExceptTapError ==
    \A t \in Threads :
        SerialWrite(t) =>
            /\ TapWaitEnded(log[t], RESP_ERROR) =>
                  /\ pc[t] = "done"
                  /\ ret[t] = [success |-> FALSE, error |-> resp[t].data]
            /\ TapWaitEnded(log[t], TIMEOUT) => Retried(t)
            /\ ResultWaitEnded(log[t], RESP_ERROR) => Retried(t)
            /\ ResultWaitEnded(log[t], TIMEOUT) => Retried(t)

C3_Witness ==
    \E t \in Threads :
        /\ SerialWrite(t)
        /\ TapWaitEnded(log[t], RESP_ERROR)
        /\ Sends(log[t]) = 2
        /\ ResultWaitEnded(SubSeq(log[t], 1, 4), RESP_ERROR)
        /\ pc[t] = "done"

\* C4: a Serial write_ndef that reads DUPLICATE after TAP_CARD is over at
\* once, with a failure whose duplicate flag is set and whose uid is the one
\* the DUPLICATE line carried, and has sent no ERASE.
C4_DuplicateEndsWrite ==
    \A t \in Threads :
        SerialWrite(t) /\ ResultWaitEnded(log[t], RESP_DUPLICATE) =>
            /\ pc[t] = "done"
            /\ ret[t].success = FALSE
            /\ ret[t].duplicate = TRUE
            /\ ret[t].uid = result[t].data
            /\ \A i \in 1..Len(log[t]) : log[t][i] # Ev("send", CMD_ERASE)

C4_Witness ==
    \E t \in Threads :
        /\ SerialWrite(t)
        /\ ResultWaitEnded(log[t], RESP_DUPLICATE)
        /\ result[t].data = "04A1B2"
        /\ resp[t].data = ""
        /\ ret[t].uid = "04A1B2"

\* the positions of a call between the end of its "with self._lock:" entry and
\* the release of the lock
Inside(t) == call[t] \in TagOps /\ pc[t] \notin {"idle", "acquire"}

\* C5: on either transport at most one of write/read/erase/lock/info is
\* between taking the session lock and returning: a call is inside only
\* while it holds the lock, and the lock is held only by a call that has not
\* returned.
C5_OneOperationInFlight ==
    /\ \A t \in Threads : Inside(t) => _lock = t
    /\ \A t, u \in Threads : Inside(t) /\ Inside(u) => t = u
    /\ \A t \in Threads : _lock = t => pc[t] \notin {"idle", "acquire"}

C5_Witness ==
    \E t, u \in Threads :
        /\ t # u
        /\ Inside(t)
        /\ pc[t] \in {"result_wait", "cmd_wait"}
        /\ log[t] # <<>>
        /\ pc[u] = "acquire"

\* C6 (as claimed): every reply _send_command returns answers the command
\* that call sent.
C6_ReplyAnswersCommand ==
    \A t \in Threads :
        reader_mode = "phone" /\ "re" \in DOMAIN result[t] => result[t].re = "current"

\* C8 (as claimed): every write/read/erase/lock/info call of either
\* transport ends with an outcome that has a success flag.
C8_NoFaultCrosses ==
    \A t \in Threads :
        pc[t] = "done" /\ call[t] \in TagOps => "success" \in DOMAIN ret[t]

\* C9 (as claimed): get_ndef_payload_info gives a summary or None for every
\* byte sequence; no exception leaves it.
C9_DecodeNeverRaises == decoded.kind # "raise"

\* the index (0-based) of the record header, and the fields of the header
RecordAt(data) == IF data[2] = 255 THEN 4 ELSE 2
ShortRecord(data) == BitSet(data[RecordAt(data) + 1], 16)
TypeAt(data) == RecordAt(data) + (IF ShortRecord(data) THEN 3 ELSE 6)
TypeLenField(data) == data[RecordAt(data) + 2]
PayloadLenField(data) ==
    LET i == RecordAt(data) + 2
    IN  IF ShortRecord(data) THEN data[i + 1]
        ELSE UnpackI(SubSeq(data, i + 2, i + 5))

\* C10 (as claimed): a summary is given only for an image that holds all the
\* bytes its record declares: on an image that ends before the declared type
\* and payload lengths are satisfied the result is None.
C10_TruncatedGivesNone ==
    decoded.kind = "info" =>
        /\ Len(ndef_image) >= TypeAt(ndef_image) + TypeLenField(ndef_image)
                              + PayloadLenField(ndef_image)
        /\ Len(decoded.raw_payload) = PayloadLenField(ndef_image)

\* the erase has been asked of the transport: the call is under way or its
\* command is on the channel
Erasing ==
    \/ call[Main] = "erase_tag"
    \/ \E i \in 1..Len(log[Main]) : log[Main][i] = Ev("send", CMD_ERASE)

\* C7: do_write calls erase_tag only right after a write outcome with the
\* duplicate flag and a yes to the overwrite question; after a no it does
\* nothing more; and it calls itself again only right after an erase outcome
\* that was a success.
C7_EraseOnlyAfterConfirm ==
    /\ Erasing =>
          /\ cli_pc = "erase_tag"
          /\ Outcome(cli_result) = "duplicate"
    /\ \A i \in 1..Len(cli_log) :
          /\ cli_log[i] = Ev("erase_tag", "") =>
                /\ i >= 3
                /\ cli_log[i - 1] = Ev("overwrite", TRUE)
                /\ cli_log[i - 2] = Ev("result", "duplicate")
          /\ cli_log[i] = Ev("overwrite", FALSE) => i = Len(cli_log) /\ cli_pc = "returned"
          /\ (cli_log[i][1] = "result" /\ cli_log[i][2] # "duplicate") => i = Len(cli_log)
          /\ cli_log[i] = Ev("do_write", "") =>
                /\ i >= 2
                /\ cli_log[i - 1] = Ev("erased", "success")

C7_Witness ==
    /\ depth = 1
    /\ cli_pc = "overwrite"
    /\ \E i \in 1..Len(cli_log) : cli_log[i] = Ev("erase_tag", "")
    /\ \E i \in 1..Len(cli_log) : cli_log[i] = Ev("do_write", "")

\* C11 (as claimed): once the page has announced itself without the
\* tag-reading capability, every Bridge operation that starts returns a
\* failure at once, sending nothing.
C11_CapabilityAbsenceFailsFast ==
    [][\A t \in Threads :
          (/\ reader_mode = "phone"
           /\ pc[t] = "locked"
           /\ call[t] \in TagOps
           /\ PhoneConnected
           /\ ~_nfc_supported
           /\ pc'[t] # "locked")
          => (/\ pc'[t] = "done"
              /\ ret'[t].success = FALSE
              /\ log'[t] = <<>>)]_vars

SerialOp(t) == reader_mode = "arduino" /\ call[t] \in TagOps

\* C12: in every Serial operation the tap prompt comes right after the
\* TAP_CARD that answered the command of that attempt, and the wait for the
\* terminal response comes right after the prompt; an attempt whose tap wait
\* ended with ERROR or a timeout has no prompt.
C12_PromptAfterTapCard ==
    \A t \in Threads :
        SerialOp(t) =>
            /\ \A i \in 1..Len(log[t]) :
                  /\ log[t][i] = Ev("prompt", "") =>
                        /\ i >= 3
                        /\ log[t][i - 1] = Ev("wait", RESP_TAP_CARD)
                        /\ log[t][i - 2] = Ev("send", Command(call[t]))
                  /\ (log[t][i][1] = "wait" /\ log[t][i - 1][1] # "send") =>
                        log[t][i - 1] = Ev("prompt", "")
                  /\ (log[t][i] = Ev("wait", RESP_TAP_CARD) /\ log[t][i - 1][1] = "send") =>
                        (i < Len(log[t]) /\ log[t][i + 1] = Ev("prompt", ""))
            /\ pc[t] = "result_wait" => Last(log[t]) = Ev("prompt", "")

C12_Witness ==
    \E t \in Threads :
        /\ SerialOp(t)
        /\ call[t] = "erase_tag"
        /\ pc[t] = "done"
        /\ log[t] = <<Ev("send", CMD_ERASE), Ev("wait", RESP_TAP_CARD), Ev("prompt", ""),
                      Ev("wait", RESP_ERASE_OK)>>

\* C13: a Serial write_ndef outcome is a success only when the attempt that
\* gave it read TAP_CARD and then WRITE_OK or VERIFY_OK; verified is true for
\* VERIFY_OK and false for WRITE_OK, and uid is the data of that response.
C13_SuccessNeedsWriteOk ==
    \A t \in Threads :
        (SerialWrite(t) /\ pc[t] = "done" /\ Get(ret[t], "success", FALSE)) =>
            /\ \/ ResultWaitEnded(log[t], RESP_WRITE_OK)
               \/ ResultWaitEnded(log[t], RESP_VERIFY_OK)
            /\ Len(log[t]) >= 4
            /\ log[t][Len(log[t]) - 2] = Ev("wait", RESP_TAP_CARD)
            /\ log[t][Len(log[t]) - 3] = Ev("send", CMD_WRITE_RAW)
            /\ ret[t].verified = (Last(log[t]) = Ev("wait", RESP_VERIFY_OK))
            /\ ret[t].uid = result[t].data
            /\ result[t].status = Last(log[t])[2]

C13_Witness ==
    \E t \in Threads :
        /\ SerialWrite(t)
        /\ pc[t] = "done"
        /\ ret[t] = [success |-> TRUE, uid |-> "04A1B2", attempts |-> 2, verified |-> FALSE]
        /\ resp[t].data = ""

\* the commands a call has sent
SendCount(l) == Cardinality({i \in 1..Len(l) : l[i][1] = "send"})

Faulted(l) == \E i \in 1..Len(l) : l[i][1] = "fault"

\* C14: on either transport erase, lock, read and info send their command
\* at most once, exactly once on a connected Serial session whose channel
\* takes the command, and end with an outcome of that call, a failure when
\* the attempt failed or timed out.
C14_SingleOpsNoRetry ==
    \A t \in Threads :
        call[t] \in SingleOps =>
            /\ SendCount(log[t]) <= 1
            /\ pc[t] = "done" =>
                  /\ "success" \in DOMAIN ret[t]
                  /\ (/\ reader_mode = "arduino"
                      /\ ret[t] # [success |-> FALSE, error |-> "Not connected"]
                      /\ ~Faulted(log[t])) => SendCount(log[t]) = 1
                  /\ (/\ reader_mode = "arduino"
                      /\ log[t] # <<>>
                      /\ Last(log[t]) \in {Ev("wait", TIMEOUT), Ev("wait", RESP_ERROR)})
                        => ret[t].success = FALSE
                  /\ (reader_mode = "phone" /\ result[t] = None) => ret[t].success = FALSE

C14_Witness ==
    \E t \in Threads :
        /\ call[t] = "erase_tag"
        /\ reader_mode = "arduino"
        /\ pc[t] = "done"
        /\ ResultWaitEnded(log[t], TIMEOUT)
        /\ SendCount(log[t]) = 1
        /\ ret[t].success = FALSE

\* one attempt whose tap wait timed out
SilentRound == <<Ev("send", CMD_WRITE_RAW), Ev("wait", TIMEOUT)>>

RECURSIVE SilentRounds(_)
SilentRounds(n) == IF n = 0 THEN <<>> ELSE SilentRound \o SilentRounds(n - 1)

\* where a silent peer leaves the calls that got past their tests
SilentShape(t) ==
    /\ (SerialOp(t) /\ log[t] # <<>>) =>
          IF call[t] = "write_ndef"
          THEN /\ IsPrefix(log[t], SilentRounds(max_retries))
               /\ (pc[t] = "done") = (log[t] = SilentRounds(max_retries))
               /\ pc[t] = "done" => ret[t] = Exhausted
          ELSE /\ IsPrefix(log[t], <<Ev("send", Command(call[t])), Ev("wait", TIMEOUT)>>)
               /\ (pc[t] = "done") = (Len(log[t]) = 2)
               /\ pc[t] = "done" => ret[t] = [success |-> FALSE, error |-> ""]
    /\ (reader_mode = "phone" /\ call[t] \in TagOps /\ log[t] # <<>>) =>
          /\ attempt[t] <= max_retries
          /\ SendCount(log[t]) <= (IF call[t] = "write_ndef" THEN max_retries ELSE 1)
          /\ pc[t] = "done" =>
                IF call[t] = "write_ndef"
                THEN attempt[t] = max_retries /\ ret[t] = Exhausted
                ELSE ret[t] = [success |-> FALSE, error |-> "No response from phone"]

\* C15: with a silent peer and no fault of the channel every public
\* operation that has started returns: a Serial write after max_retries tap
\* waits that timed out, a Serial erase/lock/read/info after one, a Bridge
\* write after max_retries reply waits, the other Bridge operations after one.
C15_SilentPeerTerminates ==
    /\ [](\A t \in Threads : SilentShape(t))
    /\ \A t \in Threads : (pc[t] \in {"locked", "nolock"}) ~> (pc[t] = "done")

C15_Witness ==
    \E t \in Threads :
        /\ SerialWrite(t)
        /\ pc[t] = "done"
        /\ log[t] = SilentRounds(max_retries)
        /\ ret[t] = Exhausted

\* a Bridge write_ndef that entered its loop and has returned
PhoneWriteDone(t) ==
    /\ reader_mode = "phone"
    /\ call[t] = "write_ndef"
    /\ pc[t] = "done"
    /\ log[t] # <<>>

\* the last attempt of t's write ended with an error reply
ErrorReplyLast(t) == result[t] # None /\ result[t].event = "error"

\* C16 as stated: a Bridge write that does not succeed ends, like the Serial
\* one, with the attempts-exhausted failure.
C16_SameExhaustedOutcome ==
    \A t \in Threads :
        (PhoneWriteDone(t) /\ ~ret[t].success) => ret[t] = Exhausted

\* C16: Bridge write_ndef sends at most max_retries commands, a write_ok
\* reply at attempt k returns success with attempts = k, and a write without
\* write_ok ends after exactly max_retries attempts: with the
\* attempts-exhausted failure when the last attempt got no reply (or a reply
\* that is neither write_ok nor error), with the error of the reply when the
\* last attempt got an error reply.
C16_BridgeRetryPolicy ==
    \A t \in Threads :
        /\ (reader_mode = "phone" /\ call[t] = "write_ndef") =>
              /\ attempt[t] <= max_retries
              /\ SendCount(log[t]) <= max_retries
        /\ PhoneWriteDone(t) =>
              /\ ret[t].success =
                    (result[t] # None /\ result[t].event = "write_ok")
              /\ ret[t].success => ret[t].attempts = attempt[t]
              /\ ~ret[t].success =>
                    /\ attempt[t] = max_retries
                    /\ ret[t] = IF ErrorReplyLast(t)
                                THEN [success |-> FALSE, error |-> result[t].error]
                                ELSE Exhausted

C16_Witness ==
    \E t \in Threads :
        /\ PhoneWriteDone(t)
        /\ ErrorReplyLast(t)
        /\ attempt[t] = max_retries
        /\ SendCount(log[t]) = max_retries
        /\ ret[t] = [success |-> FALSE, error |-> "NotAllowedError"]

NotConnected == [success |-> FALSE, error |-> "Phone not connected"]

\* C17: when the bridging tool, the device and the tunnels are there, Bridge
\* connect returns True also when its 30 s wait ends without an announcement
\* of the page; the servers run and the connected property is false, and a
\* tag operation that starts while it is false returns the not-connected
\* failure at once, having sent nothing.
C17_SoftSuccess ==
    [][\A t \in Threads :
          /\ (reader_mode = "phone" /\ pc[t] = "connect_wait" /\ pc'[t] # "connect_wait")
                => /\ pc'[t] = "done"
                   /\ ret'[t] = [value |-> TRUE]
                   /\ server_alive' = server_alive
                   /\ ~_phone_ready => ~PhoneConnected'
          /\ (/\ reader_mode = "phone" /\ pc[t] = "locked" /\ call[t] \in TagOps
              /\ ~PhoneConnected /\ pc'[t] # "locked")
                => /\ pc'[t] = "done"
                   /\ ret'[t] = NotConnected
                   /\ log'[t] = <<>>
                   /\ phone_pending' = phone_pending]_vars

\* the thread that called connect has since started a tag operation
C17_Witness ==
    \E t \in Threads :
        /\ reader_mode = "phone"
        /\ "connect" \in Callable(t)
        /\ _connected /\ server_alive /\ ~_phone_ready /\ ~_response_event
        /\ pc[t] = "done"
        /\ call[t] \in TagOps
        /\ ret[t] = NotConnected
        /\ log[t] = <<>>

\* C18: Serial connect on a session that is not connected returns True and
\* leaves the session connected once the port is open, whether the ping is
\* answered by PONG, by another line or by nothing; it returns False only
\* when no port is found or the open fails, and then the session has no
\* handle and is not connected.
C18_ConnectPermissive ==
    [][\A t \in Threads :
          (/\ reader_mode = "arduino" /\ pc[t] = "locked" /\ call[t] = "connect"
           /\ ~RfidConnected /\ pc'[t] # "locked")
          => /\ pc'[t] = "done"
             /\ log'[t] # <<>>
             /\ LET how == Last(log'[t])[2]
                IN  IF how \in {"pong", "other_line", "silent"}
                    THEN ret'[t] = [value |-> TRUE] /\ RfidConnected'
                    ELSE /\ how \in {"no_port", "open_fails"}
                         /\ ret'[t] = [value |-> FALSE]
                         /\ _serial' = "None"
                         /\ ~_connected']_vars

C18_Witness ==
    \E t \in Threads :
        /\ reader_mode = "arduino"
        /\ call[t] = "connect"
        /\ pc[t] = "done"
        /\ log[t] = <<Ev("connect", "silent")>>
        /\ ret[t] = [value |-> TRUE]
        /\ RfidConnected

\* the session has been torn down (or was never set up)
RfidDown == _serial = "None" /\ ~_connected
PhoneDown == ~server_alive /\ ~_connected /\ ~_phone_ready /\ _ws_client = "None"

\* C19: disconnect of either reader, called in any state, returns without
\* raising and leaves the session not connected with no handle of the port or
\* of the page; called on a session that is already down it changes nothing
\* of the session.
C19_TeardownIdempotent ==
    [][\A t \in Threads :
          /\ (/\ reader_mode = "arduino" /\ pc[t] = "locked" /\ call[t] = "disconnect"
              /\ pc'[t] # "locked")
                => /\ pc'[t] = "done"
                   /\ ret'[t] = [value |-> "None"]
                   /\ RfidDown' /\ ~RfidConnected'
                   /\ RfidDown => UNCHANGED <<reader_mode, _connected, rfidVars, phoneVars>>
          /\ (/\ reader_mode = "phone" /\ pc[t] = "nolock" /\ call[t] = "disconnect"
              /\ pc'[t] # "nolock")
                => /\ pc'[t] = "done"
                   /\ ret'[t] = [value |-> "None"]
                   /\ PhoneDown' /\ ~PhoneConnected'
                   /\ PhoneDown => UNCHANGED <<sessVars, rfidVars, phoneVars>>]_vars

\* a disconnect of a session that is already down has returned
C19_Witness ==
    \E t \in Threads :
        /\ call[t] = "disconnect"
        /\ pc[t] = "done"
        /\ log[t] = <<Ev("disconnect", "not_connected")>>
        /\ ret[t] = [value |-> "None"]
        /\ IF reader_mode = "arduino" THEN RfidDown ELSE PhoneDown

\* C20: Bridge connect gets past device discovery (to the tunnels, the
\* listener and the asset server) only when exactly one device is attached.
C20_ExactlyOneDevice ==
    \A t \in Threads :
        (/\ reader_mode = "phone" /\ call[t] = "connect"
         /\ pc[t] \in {"connect_clear", "connect_wait"})
        => log[t] = <<Ev("devices", 1)>>

\* C21: once the bus listener task has stopped on a fault, the connected
\* property is false, and a tag operation that starts then returns the
\* not-connected failure instead of sending its command.
C21_TaskFaultDisconnects ==
    [][\A t \in Threads :
          (/\ reader_mode = "phone" /\ pc[t] = "locked" /\ call[t] \in TagOps
           /\ _connected /\ ~server_alive /\ pc'[t] # "locked")
          => (pc'[t] = "done" /\ ret'[t] = NotConnected)]_vars

\* the call of encoder op has run and its image has been read back
ReadBack(op) == encode_call.op = op /\ encoded.kind = "bytes" /\ decoded # NotDecoded

\* url is a table prefix followed by any suffix
HasTablePrefix(url) ==
    \E i \in DOMAIN URI_PREFIXES : StartsWith(url, URI_PREFIXES[i].prefix)

\* url matches no table entry, in whatever letter case
MatchesNoEntry(url) ==
    \A i \in DOMAIN URI_PREFIXES : ~StartsWith(Lower(Strip(url)), URI_PREFIXES[i].prefix)

\* C22: for a URL that is a table prefix followed by any suffix, and for a
\* URL that matches no table entry, reading back encode_url's image gives a
\* URL summary whose content is that URL exactly. (Stated here for URLs
\* without white space at either end, which encode_url would strip.)
C22_UrlRoundTrip ==
    (/\ ReadBack("encode_url")
     /\ Strip(encode_call.url) = encode_call.url
     /\ HasTablePrefix(encode_call.url) \/ MatchesNoEntry(encode_call.url))
    => /\ decoded.kind = "info"
       /\ decoded.content_type = "URL"
       /\ decoded.content = encode_call.url

\* the auth types encode_wifi's auth_map names
KnownAuth == {STR_OPEN, STR_WPA, STR_WPA2, STR_WPA2_EAP}

\* what reading back the image of encode_wifi(ssid, password, auth_type) gives
WifiSummary(ssid, password, auth_type) ==
    get_ndef_payload_info(encode_wifi(ssid, password, auth_type).value)

\* C23: the summary read back from encode_wifi's image determines the SSID
\* and the auth type: no other SSID and no other auth type of auth_map, with
\* the same password, gives the same summary.
C23_WifiRoundTrip ==
    (ReadBack("encode_wifi") /\ Upper(encode_call.auth_type) \in KnownAuth)
    => \A ssid \in ShortTexts, auth_type \in KnownAuth :
          WifiSummary(ssid, encode_call.password, auth_type) = decoded
          => /\ ssid = encode_call.ssid
             /\ auth_type = Upper(encode_call.auth_type)

\* C24: for every text and every ASCII language code, reading back
\* encode_text's image gives a Text summary with that text and that language,
\* and the status byte has bits 7 and 6 clear and the length of the language
\* code in its low 6 bits. (Stated here for texts without white space at
\* either end, which encode_text would strip.)
C24_TextRoundTrip ==
    (ReadBack("encode_text") /\ Strip(encode_call.text) = encode_call.text)
    => /\ decoded.kind = "info"
       /\ decoded.content_type = "Text"
       /\ decoded.content = encode_call.text
       /\ decoded.language = encode_call.lang
       /\ ~BitSet(decoded.raw_payload[1], 128)
       /\ ~BitSet(decoded.raw_payload[1], 64)
       /\ LowBits(decoded.raw_payload[1], 63) = Len(encode_call.lang)

\* the image has the one-byte length form / the 0xFF form, around a record
\* of n bytes
ShortContainer(img, n) == Len(img) = n + 3 /\ img[2] = n /\ n < 255
LongContainer(img, n) ==
    Len(img) = n + 5 /\ img[2] = 255 /\ img[3] * 256 + img[4] = n /\ n >= 255

\* C25: the image every encoder returns begins with 0x03, ends with 0xFE, and
\* its length field is the length of the record between them: one byte for a
\* record shorter than 255 bytes, otherwise 0xFF and two bytes, big-endian.
C25_ContainerIntegrity ==
    encoded.kind = "bytes"
    => LET img == encoded.value
       IN  /\ Len(img) >= 3
           /\ img[1] = 3
           /\ img[Len(img)] = 254
           /\ IF img[2] # 255
              THEN ShortContainer(img, Len(img) - 3)
              ELSE LongContainer(img, Len(img) - 5)

\* a record of exactly 255 bytes has been wrapped
C25_Witness ==
    /\ encoded.kind = "bytes"
    /\ LongContainer(encoded.value, 255)

\* the record inside the container of an image
RecordOf(img) ==
    IF img[2] # 255 THEN SubSeq(img, 3, Len(img) - 1) ELSE SubSeq(img, 5, Len(img) - 1)

\* the TNF each encoder asks for: well-known (URI, Text) or MIME
TnfOf(op) == IF op \in {"encode_vcard", "encode_wifi"} THEN 2 ELSE 1

\* the record is header, type length, a payload length of `width` bytes, the
\* type, and a payload of n bytes
RecordShape(rec, width, n) ==
    /\ Len(rec) = 2 + width + rec[2] + n
    /\ IF width = 1 THEN rec[3] = n ELSE UnpackI(SubSeq(rec, 3, 6)) = n

\* C26: the record header has MB and ME set and the TNF in bits 0-2; SR is
\* set and the payload length is one byte exactly when the payload is at most
\* 255 bytes; from 256 bytes on SR is clear and the length is four bytes,
\* big-endian; the decoder reads a payload of that length back.
C26_RecordHeader ==
    encoded.kind = "bytes"
    => LET rec == RecordOf(encoded.value)
           header == rec[1]
       IN  /\ Len(rec) >= 3
           /\ BitSet(header, 128)
           /\ BitSet(header, 64)
           /\ ~BitSet(header, 32)
           /\ ~BitSet(header, 8)
           /\ LowBits(header, 7) = TnfOf(encode_call.op)
           /\ IF BitSet(header, 16)
              THEN RecordShape(rec, 1, Len(rec) - 3 - rec[2])
              ELSE /\ Len(rec) - 6 - rec[2] >= 256
                   /\ RecordShape(rec, 4, Len(rec) - 6 - rec[2])
           /\ decoded # NotDecoded
              => /\ decoded.kind = "info"
                 /\ decoded.tnf = TnfOf(encode_call.op)
                 /\ Len(decoded.type) = rec[2]
                 /\ IF BitSet(header, 16)
                    THEN decoded.raw_payload = SubSeq(rec, 4 + rec[2], Len(rec))
                    ELSE decoded.raw_payload = SubSeq(rec, 7 + rec[2], Len(rec))

\* a payload of exactly 256 bytes went out in the long form and was read back
C26_Witness ==
    /\ encoded.kind = "bytes"
    /\ ~BitSet(RecordOf(encoded.value)[1], 16)
    /\ decoded # NotDecoded
    /\ Len(decoded.raw_payload) = 256

\* a payload of exactly 255 bytes went out in the short form and was read back
PayloadOf255Short ==
    /\ encoded.kind = "bytes"
    /\ BitSet(RecordOf(encoded.value)[1], 16)
    /\ decoded # NotDecoded
    /\ Len(decoded.raw_payload) = 255

\* the payload of a record
PayloadOf(rec) ==
    IF BitSet(rec[1], 16) THEN SubSeq(rec, 4 + rec[2], Len(rec))
    ELSE SubSeq(rec, 7 + rec[2], Len(rec))

\* the table entries whose prefix url starts with, and the longest of them
PrefixesOf(url) == {i \in DOMAIN URI_PREFIXES : StartsWith(url, URI_PREFIXES[i].prefix)}
LongestPrefixOf(url) ==
    URI_PREFIXES[CHOOSE i \in PrefixesOf(url) :
        \A j \in PrefixesOf(url) : Len(URI_PREFIXES[i].prefix) >= Len(URI_PREFIXES[j].prefix)]

\* the URI payload the longest-match rule gives for url
LongestMatchPayload(url) ==
    IF PrefixesOf(url) = {} THEN <<0>> \o Utf8Encode(url)
    ELSE <<LongestPrefixOf(url).code>>
         \o Utf8Encode(Slice(url, Len(LongestPrefixOf(url).prefix), Len(url)))

\* C27: the URI payload of encode_url(url) is the code of the longest table
\* prefix that url starts with (0x00 when it starts with none), followed by
\* url with exactly that prefix removed.
C27_LongestMatchFirst ==
    (/\ encode_call.op = "encode_url"
     /\ encoded.kind = "bytes"
     /\ Strip(encode_call.url) = encode_call.url)
    => PayloadOf(RecordOf(encoded.value)) = LongestMatchPayload(encode_call.url)

\* the same for the URL as encode_url sees it: stripped, and matched in lower
\* case
C27_LongestMatchFolded ==
    (encode_call.op = "encode_url" /\ encoded.kind = "bytes")
    => LET url == Strip(encode_call.url)
           hits == PrefixesOf(Lower(url))
       IN  PayloadOf(RecordOf(encoded.value)) =
               IF hits = {} THEN <<0>> \o Utf8Encode(url)
               ELSE <<LongestPrefixOf(Lower(url)).code>>
                    \o Utf8Encode(Slice(url, Len(LongestPrefixOf(Lower(url)).prefix), Len(url)))

\* the value of the first attribute `id` in a run of Wi-Fi Simple Config
\* attributes (2-byte id, 2-byte length, value), <<>> when there is none
RECURSIVE AttrValue(_, _)
AttrValue(attrs, id) ==
    IF Len(attrs) < 4 THEN <<>>
    ELSE LET length == attrs[3] * 256 + attrs[4]
         IN  IF attrs[1] * 256 + attrs[2] = id THEN SubSeq(attrs, 5, 4 + length)
             ELSE AttrValue(SubSeq(attrs, 5 + length, Len(attrs)), id)

\* the authentication type (0x1003) and encryption type (0x100F) inside the
\* credential (0x100E) of the image encode_wifi returned
WifiAuthType == AttrValue(AttrValue(PayloadOf(RecordOf(encoded.value)), 4110), 4099)
WifiEncType == AttrValue(AttrValue(PayloadOf(RecordOf(encoded.value)), 4110), 4111)

EncodedWifi == encode_call.op = "encode_wifi" /\ encoded.kind = "bytes"

\* C28 as stated: OPEN gives authentication type 0x0001 and encryption type
\* 0x0001, every other auth string gives 0x0020 and 0x0004.
C28_OpenOrWpa2 ==
    EncodedWifi
    => IF Upper(encode_call.auth_type) = STR_OPEN
       THEN WifiAuthType = <<0, 1>> /\ WifiEncType = <<0, 1>>
       ELSE WifiAuthType = <<0, 32>> /\ WifiEncType = <<0, 4>>

\* C28: OPEN (in any letter case) gives authentication type 0x0001 and
\* encryption type 0x0001; WPA gives 0x0002 and 0x0004; every other auth
\* string (WPA2, WPA2-EAP, unrecognized) gives 0x0020 and 0x0004.
C28_WifiAuthMapping ==
    EncodedWifi
    => CASE Upper(encode_call.auth_type) = STR_OPEN ->
                WifiAuthType = <<0, 1>> /\ WifiEncType = <<0, 1>>
         [] Upper(encode_call.auth_type) = STR_WPA ->
                WifiAuthType = <<0, 2>> /\ WifiEncType = <<0, 4>>
         [] OTHER ->
                WifiAuthType = <<0, 32>> /\ WifiEncType = <<0, 4>>

\* a network with auth type WPA has been encoded
C28_Witness ==
    /\ EncodedWifi
    /\ encode_call.auth_type = STR_WPA
    /\ WifiAuthType = <<0, 2>>
    /\ WifiEncType = <<0, 4>>

\* C29: every encoder other than encode_social returns an image for every
\* input, an empty or white-space-only contact name and any language code
\* included; none raises.
C29_EncodersTotal ==
    (encoded # NotEncoded /\ encode_call.op # "encode_social")
    => encoded.kind = "bytes"

\* str without its leading '@' characters
RECURSIVE LStripAt(_)
LStripAt(str) ==
    IF str # <<>> /\ str[1] = 64 THEN LStripAt(Tail(str)) ELSE str

\* the URL template of a platform of the table, <<>> for any other name
TemplateOf(name) ==
    LET found == {i \in DOMAIN SOCIAL_PLATFORMS : SOCIAL_PLATFORMS[i].name = name}
    IN  IF found = {} THEN <<>> ELSE SOCIAL_PLATFORMS[CHOOSE i \in found : TRUE].url

InTable(name) == \E i \in DOMAIN SOCIAL_PLATFORMS : SOCIAL_PLATFORMS[i].name = name

CalledSocial == encode_call.op = "encode_social" /\ encoded # NotEncoded

\* C30 as stated: a platform that, trimmed and in lower case, is not in the
\* table gives the error; one that is gives encode_url of its template filled
\* with the username stripped of leading '@'.
C30_SocialLeadingAtOnly ==
    CalledSocial
    => LET platform == Lower(Strip(encode_call.platform))
       IN  IF ~InTable(platform) THEN encoded = Raise("ValueError")
           ELSE encoded = encode_url(TemplateOf(platform) \o LStripAt(encode_call.username))

\* C30: a platform that, trimmed and in lower case, is not in the table gives
\* the error; one that is gives encode_url of its template filled with the
\* username trimmed of white space and then stripped of leading '@'.
C30_SocialLookup ==
    CalledSocial
    => LET platform == Lower(Strip(encode_call.platform))
       IN  IF ~InTable(platform) THEN encoded = Raise("ValueError")
           ELSE encoded = encode_url(TemplateOf(platform)
                                     \o LStripAt(Strip(encode_call.username)))

\* a platform written in upper case was found, and the username " @@a" went
\* into its template as "a"
C30_Witness ==
    /\ CalledSocial
    /\ encode_call.platform # Lower(encode_call.platform)
    /\ encode_call.username = <<32, 64, 64, 97>>
    /\ encoded = encode_url(TemplateOf(Lower(encode_call.platform)) \o <<97>>)

\* a platform that is not in the table was refused
SocialRefused == CalledSocial /\ encoded = Raise("ValueError")

\* C31: whenever the operator interrupts the bulk loop, the session that is
\* then closed has stored totals equal to the numbers of successful and
\* failed outcomes the loop counted and the summary shows.
C31_BulkSummaryConsistent ==
    bulk_pc = "summary"
    => /\ ended_at
       /\ total_written = written
       /\ total_failed = failed

\* C32: the port, the retry budget and the verify policy of a session are
\* those it was constructed with: no operation and no settings change sets
\* them on the same session object, only a newly constructed session has
\* others.
C32_ConfigSnapshot ==
    [][NewSession \/ /\ port' = port
                     /\ max_retries' = max_retries
                     /\ verify_after_write' = verify_after_write]_vars

\* the same for the retry budget and the verify policy alone
C32_BudgetSnapshot ==
    [][NewSession \/ /\ max_retries' = max_retries
                     /\ verify_after_write' = verify_after_write]_vars

\* the settings file and the session differ in the retry budget
BudgetChangedInFile == config.max_retries # max_retries

\* the command that carries the hex of the whole image
RawCommand(image) == [cmd |-> "write", type |-> "raw", hex_data |-> bytes_to_hex(image)]

\* decoding bytes as UTF-8 loses nothing
Lossless(bytes) == Utf8Valid(bytes)

\* the image has been decoded, and the decoder raised nothing
Translated == decoded # NotDecoded /\ ~Raises(decoded)

\* C33: _ndef_to_web_nfc turns a URI image into a url command with the
\* reconstructed URL, a Text image into a text command with text and
\* language, a vCard or WiFi image into a mime command with the decoded text
\* when the payload is valid UTF-8 and with its hex otherwise, and an image
\* the decoder gives no summary for into a raw command with the hex of the
\* whole image; the record payload can be rebuilt from the command.
C33_ImageTranslation ==
    Translated
    => LET cmd == ndef_to_web_nfc(ndef_image)
       IN  IF decoded = None THEN cmd = RawCommand(ndef_image)
           ELSE CASE decoded.content_type = "URL" ->
                       /\ cmd = [cmd |-> "write", type |-> "url", url |-> decoded.content]
                       /\ Lossless(Tail(decoded.raw_payload))
                  [] decoded.content_type = "Text" ->
                       /\ cmd = [cmd |-> "write", type |-> "text", text |-> decoded.content,
                                 lang |-> decoded.language]
                       /\ Lossless(decoded.raw_payload)
                  [] decoded.content_type \in {"vCard", "WiFi"} ->
                       /\ cmd.type = "mime"
                       /\ IF Utf8Valid(decoded.raw_payload)
                          THEN /\ "text_data" \in DOMAIN cmd
                               /\ cmd.text_data = Utf8Replace(decoded.raw_payload)
                          ELSE /\ "hex_data" \in DOMAIN cmd
                               /\ cmd.hex_data = bytes_to_hex(decoded.raw_payload)
                  [] OTHER -> TRUE

\* C33, the vCard part alone: a vCard payload that is not valid UTF-8 goes
\* out as hex
C33_VcardHexWhenNotUtf8 ==
    (Translated /\ decoded # None /\ decoded.content_type = "vCard"
     /\ ~Utf8Valid(decoded.raw_payload))
    => "hex_data" \in DOMAIN ndef_to_web_nfc(ndef_image)

\* what the code does with vCard and WiFi images: a vCard goes out as text
\* whatever its bytes, a WiFi credential as hex whatever its bytes
MimeAsCoded ==
    (Translated /\ decoded # None)
    => LET cmd == ndef_to_web_nfc(ndef_image)
       IN  /\ decoded.content_type = "vCard"
              => cmd = [cmd |-> "write", type |-> "mime", mime_type |-> "text/vcard",
                        text_data |-> Utf8Replace(decoded.raw_payload)]
           /\ decoded.content_type = "WiFi"
              => cmd = [cmd |-> "write", type |-> "mime",
                        mime_type |-> "application/vnd.wfa.wsc",
                        hex_data |-> bytes_to_hex(decoded.raw_payload)]

\* a step of thread t that opens the port
OpensPort(t) ==
    /\ Len(log'[t]) = Len(log[t]) + 1
    /\ Last(log'[t])[1] = "connect"
    /\ Last(log'[t])[2] \in {"pong", "other_line", "silent"}

\* C34: the Serial session has the connected flag set exactly when it holds
\* a handle of the port; a connect of a connected session returns True and
\* opens nothing; the port is opened only while the session holds no handle,
\* and the disconnect inside reconnect leaves no handle for the connect that
\* follows it.
C34_SessionConsistent ==
    /\ [](reader_mode = "arduino" => (_connected <=> _serial = "open"))
    /\ [][\A t \in Threads :
            /\ (/\ pc[t] = "locked" /\ call[t] = "connect"
                /\ _connected /\ _serial = "open"
                /\ pc'[t] # "locked")
                  => /\ ret'[t] = [value |-> TRUE]
                     /\ UNCHANGED <<_connected, _serial, log>>
            /\ OpensPort(t) => _serial = "None" /\ ~_connected
            /\ (pc[t] = "in_disconnect" /\ pc'[t] # "in_disconnect")
                  => /\ pc'[t] = "reconnect_connect"
                     /\ _serial' = "None" /\ ~_connected']_vars

\* reconnect of a connected session has closed the port, opened it again
\* and returned True
C34_Witness ==
    /\ call[Main] = "reconnect"
    /\ pc[Main] = "done"
    /\ log[Main] = <<Ev("disconnect", "connected"), Ev("connect", "pong")>>
    /\ ret[Main] = [value |-> TRUE]
    /\ _connected /\ _serial = "open"

\* a connect of a connected session has returned True
ConnectedTwice ==
    /\ call[Main] = "connect"
    /\ pc[Main] = "done"
    /\ log[Main] = <<>>
    /\ ret[Main] = [value |-> TRUE]
    /\ _connected /\ _serial = "open"

\* C35: a line of the device that answers a command whose wait is over
\* never ends a wait of a later attempt or operation: when such a line is
\* read, the thread stays in its wait and no dict is taken from it.
C35_NoLateLineTaken ==
    [][(owed' # owed /\ owed' \subseteq owed) => UNCHANGED <<pc, resp, result, ret>>]_vars

\* a late line that the wait does not expect, and that is not ERROR, is skipped
LateUnexpectedSkipped ==
    [][\A t \in Threads :
          (/\ owed' # owed /\ owed' \subseteq owed
           /\ pc[t] = "tap_wait"
           /\ pc'[t] # "tap_wait")
             => resp'[t].status \in TapExpected]_vars

\* the second attempt of a write_ndef reported success on nothing but the
\* lines owed to the first attempt, whose tap wait had timed out
LateSuccess ==
    /\ call[Main] = "write_ndef"
    /\ pc[Main] = "done"
    /\ ret[Main].success
    /\ ret[Main].attempts = 2
    /\ owed = {}
    /\ log[Main] = <<Ev("send", CMD_WRITE_RAW), Ev("wait", TIMEOUT),
                     Ev("send", CMD_WRITE_RAW), Ev("wait", RESP_TAP_CARD), Ev("prompt", ""),
                     Ev("wait", RESP_WRITE_OK)>>

\* C36: _send_command gives None from its wait only when the wait ran out of
\* time: when the wait ends with the event set, by an announcement or by a
\* reply, the command's reply is returned.
C36_NoneOnlyOnTimeout ==
    [][\A t \in Threads :
          (/\ reader_mode = "phone"
           /\ pc[t] = "cmd_wait"
           /\ pc'[t] # "cmd_wait"
           /\ result'[t] = None)
             => ~_response_event]_vars

\* what the wait gives is never an announcement: it is a command reply or None
AnnouncementNeverReturned ==
    [][\A t \in Threads :
          (/\ reader_mode = "phone"
           /\ pc[t] = "cmd_wait"
           /\ pc'[t] # "cmd_wait"
           /\ result'[t] # None)
             => result'[t].event \in {m.event : m \in PhoneReplies}]_vars

\* an erase_tag whose command reached the phone has returned "No response
\* from phone" with the event set and no reply stored
NoneOnAnnouncement ==
    \E t \in Threads :
        /\ reader_mode = "phone"
        /\ call[t] = "erase_tag"
        /\ pc[t] = "done"
        /\ log[t] = <<Ev("prompt", ""), Ev("send", "erase_tag")>>
        /\ ret[t] = [success |-> FALSE, error |-> "No response from phone"]
        /\ _response_event
        /\ _pending_response = None

\* C37: when a connection of the phone ends while the session refers to
\* another one, opened after it, the session's peer and its readiness stay
\* as they are.
C37_OlderCleanupKeepsPeer ==
    [][\A c \in Conns :
          (/\ conn[c] = "open"
           /\ conn'[c] = "closed"
           /\ server_alive'
           /\ _ws_client \notin {c, "None"})
             => UNCHANGED <<_ws_client, _phone_ready>>]_vars

\* the newer connection is open, the older one has ended, and the session
\* has no peer: it is not connected and a command is not sent
PeerLost ==
    /\ conn["c1"] = "closed"
    /\ conn["c2"] = "open"
    /\ _ws_client = "None"
    /\ ~PhoneConnected
    /\ call[Main] = "erase_tag"
    /\ pc[Main] = "done"
    /\ ret[Main] = [success |-> FALSE, error |-> "Phone not connected"]

\* C38: a Serial write_ndef that returns success reports attempts between 1
\* and max_retries, equal to the number of WRITE_RAW commands the call sent;
\* with max_retries 0 the call sends nothing and returns a failure.
C38_AttemptsAreSends ==
    \A t \in Threads :
        (SerialWrite(t) /\ pc[t] = "done")
          => /\ Get(ret[t], "success", FALSE)
                  => /\ 1 <= ret[t].attempts
                     /\ ret[t].attempts <= max_retries
                     /\ ret[t].attempts = Sends(log[t])
             /\ max_retries = 0
                  => /\ Sends(log[t]) = 0
                     /\ "success" \in DOMAIN ret[t]
                     /\ ~ret[t].success

\* a write_ndef with max_retries 2 has succeeded at its second attempt
C38_Witness ==
    /\ SerialWrite(Main)
    /\ pc[Main] = "done"
    /\ max_retries = 2
    /\ Get(ret[Main], "success", FALSE)
    /\ ret[Main].attempts = 2
    /\ Sends(log[Main]) = 2

\* a write_ndef of a connected session with max_retries 0 has returned
BudgetZeroFails ==
    /\ SerialWrite(Main)
    /\ pc[Main] = "done"
    /\ max_retries = 0
    /\ RfidConnected
    /\ log[Main] = <<>>
    /\ ret[Main] = Exhausted

\* the session of the reader in use is not connected
SessionDown ==
    IF reader_mode = "arduino" THEN ~(_connected /\ _serial = "open")
    ELSE ~(_connected /\ _phone_ready)

NotConnectedError == IF reader_mode = "arduino" THEN "Not connected" ELSE "Phone not connected"

\* C39: write_ndef, read_tag, erase_tag, lock_tag and get_tag_info of either
\* reader, called on a session that is not connected, return the
\* not-connected failure at once: nothing is sent, on_tap_prompt is not
\* called, and nothing of the session is changed.
C39_NotConnectedNoEffect ==
    [][\A t \in Threads :
          (/\ pc[t] = "locked"
           /\ call[t] \in TagOps
           /\ SessionDown
           /\ pc'[t] # "locked")
             => /\ pc'[t] = "done"
                /\ ret'[t] = [success |-> FALSE, error |-> NotConnectedError]
                /\ log'[t] = <<>>
                /\ UNCHANGED <<sessVars, rfidVars, phoneVars, cfgVars>>]_vars

\* an operation of a Serial session that is not connected has returned
C39_Witness ==
    \E t \in Threads :
        /\ reader_mode = "arduino"
        /\ call[t] \in TagOps
        /\ pc[t] = "done"
        /\ SessionDown
        /\ log[t] = <<>>
        /\ ret[t] = [success |-> FALSE, error |-> "Not connected"]

\* an operation of a Bridge session that is not connected has returned
BridgeNotConnectedRefused ==
    \E t \in Threads :
        /\ reader_mode = "phone"
        /\ call[t] \in TagOps
        /\ pc[t] = "done"
        /\ SessionDown
        /\ log[t] = <<>>
        /\ ret[t] = [success |-> FALSE, error |-> "Phone not connected"]

\* a Serial erase_tag, read_tag, lock_tag or get_tag_info of thread t has
\* returned after TAP_CARD and then the terminal line ERROR
FailedOnError(t) ==
    /\ reader_mode = "arduino"
    /\ call[t] \in SingleOps
    /\ pc[t] = "done"
    /\ resp[t] # NoResp /\ resp[t].status = RESP_TAP_CARD
    /\ result[t] # NoResp /\ result[t].status = RESP_ERROR

\* C40: a Serial erase_tag, read_tag, lock_tag or get_tag_info that fails on
\* an ERROR line after TAP_CARD returns that ERROR line's reason as its error.
C40_ErrorIsTerminalReason ==
    \A t \in Threads :
        FailedOnError(t) => ret[t] = [success |-> FALSE, error |-> result[t].data]

\* what the code returns there: the data of the TAP_CARD line
ErrorIsTapData ==
    \A t \in Threads :
        FailedOnError(t) => ret[t] = [success |-> FALSE, error |-> resp[t].data]

\* an erase_tag has failed on ERROR|reason after TAP_CARD|uid and returned
\* the uid as its error
TapDataAsError ==
    \E t \in Threads :
        /\ FailedOnError(t)
        /\ call[t] = "erase_tag"
        /\ resp[t].data # result[t].data
        /\ ret[t].error = resp[t].data

====
